---- MODULE Spec2Model ----
(***************************************************************************)
(* A model of the pyata relational engine (sizur/pyata):                   *)
(*   - Substitutions.sub / Substitutions.walk, Unification.unify and the   *)
(*     Constraints substitution hook           (specification Spec)        *)
(*   - the same calls after Neq(x, y) is attached                          *)
(*                                             (specification SpecNeq)     *)
(*   - Or's stream interleaving (mconcat)      (specification SpecOr)      *)
(*   - the hook registries of Facets.py        (specification SpecHooks)   *)
(*   - hooks run on a hypothetical context     (specification SpecHypo)    *)
(*   - the facet operations over immutable maps                            *)
(*                                             (specification SpecFacets)  *)
(*   - the Solver on a permutation goal        (specification SpecPerm)    *)
(*   - sub / unify after Notin is attached     (specification SpecNotin)   *)
(*   - Installations.install                   (specification SpecInstall) *)
(*   - FactsGoal calls of a FactsTable                                     *)
(*                                          (specification SpecFactsGoal)  *)
(*   - Vars.contextualize                      (specification SpecReifiers)*)
(*   - FactsTable construction                 (specification SpecTable)   *)
(*   - And over goals and constraints          (specification SpecAnd)     *)
(*   - Solver.__next__ / latest_solution       (specification SpecSolver)  *)
(*   - unify of sequences, with Ellipsis                                   *)
(*                                          (specification SpecIterables)  *)
(*   - immutables.Set                          (specification SpecSet)     *)
(*   - the callbacks one sub invokes           (specification SpecPipeline)*)
(*   - walk with hook_walk_condensible         (specification SpecWalk)    *)
(*   - Notin.expand / Notin.contract objects                               *)
(*                                          (specification SpecNotinObj)   *)
(*   - one And object called twice             (specification SpecAndTwice)*)
(*   - iter() on a Solver that has advanced                                *)
(*                                         (specification SpecSolverAgain) *)
(*   - cons_last of immutables/Cel.py          (specification SpecCel)     *)
(***************************************************************************)
EXTENDS Integers, Sequences, FiniteSets, TLC

VARIABLES
    ctx,        \* the context threaded through sub / unify / constrain
    last,       \* the last call made on ctx: its number, operation,
                \* arguments, the context passed in and the result
    goals,      \* Or.goals: per sub-goal, the length of its stream
    pos,        \* per sub-goal, how many contexts its stream has yielded
    round,      \* contexts drawn in the current round, not yet yielded
    out,        \* the contexts yielded so far by Or(...)(c)
    stopped,    \* the stream of Or(...)(c) has raised StopIteration
    hooks,      \* the facet of HooksEvents, HooksPipelines or HooksBroadcasts
    regs,       \* the hook() calls made so far, in call order
    run,        \* the last run() call: registry, key and invocations
    heap,       \* the Map objects allocated so far (contexts and facets)
    fop,        \* the last facet call: operation, context passed in, the
                \* values that context held before the call, the result
    pgoal,      \* the goal given to the Solver: its variables and the
                \* values of each Or, in the order of its Eq sub-goals
    pframes,    \* the Or streams open under mbind, outermost first: the
                \* context each was called on and the Eq goals it has drawn
    ppend,      \* a context yielded by the innermost Or, not yet consumed
    psols,      \* the tuples Solver.__next__ has returned, in order
    pstate,     \* "init", "run", "stop" (StopIteration) or "raised"
    ictx,       \* a context: its Installations facet and the callbacks
                \* hooked on FactsGoal.hook_facts
    ilast,      \* the last Installations.install call and its outcome
    fcall,      \* the call of a FactsGoal on ctx: its arguments, the
                \* context it was called on, what its stream produced
    fre,        \* the same goal called again on a context it yielded
    vreif,      \* the VarsReifiers facet of a context: variable -> reifier
    vlast,      \* the last Vars.contextualize call and its outcome
    tarr,       \* the array given to FactsTable(arr, name)
    tab,        \* the outcome of that construction
    agoal,      \* the goals and constraints given to And(...)
    ares,       \* what And(...)(ctx) and its first goal called on ctx
                \* produced
    solver,     \* a Solver object: ctx, latest_solution_ctx, vars, goal,
                \* stream_iter, and the VarsReifiers facet of its context
    scalls,     \* the calls made on the solver and their outcomes, in order
    pset,       \* a Set object: its members
    setop,      \* the last call made on it: its number, method, argument,
                \* the members before the call and the outcome
    whooks,     \* the callbacks hooked on Substitutions.hook_walk_condensible
                \* of ctx, newest first
    nheap,      \* the Notin objects created so far
    nlast,      \* the last expand / contract call and the object returned
    aagain,     \* what the And object of agoal produced when called on ctx
                \* a second time
    cel         \* a cons list given to cons_last and what the call produced

subVars  == <<ctx, last>>
orVars   == <<goals, pos, round, out, stopped>>
hookVars == <<hooks, regs, run>>
facetVars == <<heap, fop>>
permVars == <<pgoal, pframes, ppend, psols, pstate>>
installVars == <<ictx, ilast>>
factVars == <<fcall, fre>>
reifVars == <<vreif, vlast>>
tableVars == <<tarr, tab>>
andVars == <<agoal, ares>>
solverVars == <<solver, scalls>>
setVars == <<pset, setop>>
lateVars == <<whooks, nheap, nlast, aagain, cel>>
moreVars == <<reifVars, tableVars, andVars, solverVars, setVars, lateVars>>
\* for each of these groups, the other groups of moreVars
notReif  == <<tableVars, andVars, solverVars, setVars,
              lateVars>>
notTable == <<reifVars, andVars, solverVars, setVars,
              lateVars>>
notAnd   == <<reifVars, tableVars, solverVars, setVars,
              lateVars>>
notSolver == <<reifVars, tableVars, andVars, setVars,
              lateVars>>
extVars  == <<facetVars, permVars, installVars, factVars, moreVars>>
vars     == <<ctx, last, goals, pos, round, out, stopped, hooks, regs, run,
              heap, fop, pgoal, pframes, ppend, psols, pstate, ictx, ilast,
              fcall, fre, vreif, vlast, tarr, tab, agoal, ares, solver,
              scalls, pset, setop, whooks, nheap, nlast, aagain, cel>>

-----------------------------------------------------------------------------
(* Bounds *)

\* number of distinct ground values used as substitution / unification inputs
MaxVal == 2

\* number of calls made on the threaded context in one behaviour
MaxOps == 4

\* longest finite stream of a sub-goal of Or
MaxK == 3

\* contexts pulled from the stream of Or(...)(c) in one behaviour
MaxOut == 2 * MaxK + 2

\* hook() calls made on one context
MaxHooks == 3

\* hook() calls made on a context that is then made hypothetical
MaxEffHooks == 2

\* facet calls made in one behaviour
MaxFacetOps == 3

\* Installations.install calls made on one context
MaxInstalls == 5

\* calls made on a context before a FactsGoal is called on it
MaxFactOps == 2

\* Vars.contextualize calls made on one context
MaxContextualize == 3

\* rows of an array given to FactsTable
MaxRows == 3

\* calls made on one Solver
MaxSolverCalls == 4

\* length of a sequence given to unify
MaxSeqLen == 3

\* calls made on one Set
MaxSetOps == 4

\* Notin objects created
MaxNotins == 3

-----------------------------------------------------------------------------
(* Terms: logic variables (sympy Symbols, compared by name) and values *)

Vars == {"x", "y", "z"}

\* Vars.__ : the wildcard variable
WILD == "__"

ValNames == <<"1", "2", "3", "4">>

Vals == {ValNames[i] : i \in 1..MaxVal}

Terms == Vars \cup {WILD} \cup Vals

isVar(t) == t \in Vars \cup {WILD}

\* a key absent from the Substitutions facet
NoKey == "NoKey"

\* the outcome of a walk that recurses without end
RecursionError == "RecursionError"

-----------------------------------------------------------------------------
(* Constraints: Neq, Distinct, Notin objects *)

Neq(a, b) == [kind |-> "Neq", vars |-> <<a, b>>, cvals |-> {}]

Distinct(vs) == [kind |-> "Distinct", vars |-> vs, cvals |-> {}]

\* vars = (subj, *cvars); cvals = the literal members of the collection
Notin(subj, cvars, cvals) ==
    [kind |-> "Notin", vars |-> <<subj>> \o cvars, cvals |-> cvals]

\* the constraint objects the model attaches
ConstraintSet ==
    { Neq("x", "y"), Distinct(<<"x", "y", "z">>), Notin("z", <<>>, {"1"}) }

-----------------------------------------------------------------------------
(* The context: a map of facets.  Only the facets the operations below     *)
(* read or write are kept; `failed` is the identity of the object          *)
(* (ctx is Unification.Failed).                                            *)

NoCtx ==
    [ subs   |-> [v \in Vars |-> NoKey],
      cons   |-> [v \in Vars |-> {}],
      pipe   |-> <<>>,
      failed |-> FALSE ]

\* Unification.Failed: an empty Map, a different object from NoCtx
Failed == [NoCtx EXCEPT !.failed = TRUE]

\* `not ctx`: an immutables.Map with no facet is falsy
isEmpty(c) ==
    /\ \A v \in Vars : c.subs[v] = NoKey /\ c.cons[v] = {}
    /\ c.pipe = <<>>

\* results of a call: a returned context, or a raised RecursionError
Ret(c) == [exc |-> FALSE, ctx |-> c]

Raise == [exc |-> TRUE, ctx |-> NoCtx]

isOk(o) == ~o.exc /\ ~o.ctx.failed

-----------------------------------------------------------------------------
(* Substitutions.walk *)

\* a walk that returns what the variable is bound to
walk_one_hop(subs, var, track) ==
    IF var \in Vars /\ subs[var] # NoKey THEN subs[var] ELSE var

RECURSIVE walkFrom(_, _, _)
\* walk(ctx, var, _track): a chain that comes back to a tracked variable
\* recurses without end, which Python ends with RecursionError
walkFrom(subs, var, track) ==
    IF ~(var \in Vars /\ subs[var] # NoKey) THEN var
    ELSE LET sub == subs[var] IN
         IF ~(sub \in Vars /\ subs[sub] # NoKey) THEN sub
         ELSE IF sub \in track THEN RecursionError
         ELSE walkFrom(subs, sub, track \cup {sub})

\* the condensible pipeline has no callback here, so walk returns ctx as is
walk(c, var) == walkFrom(c.subs, var, {var})

-----------------------------------------------------------------------------
(* Constraint.__call__: "ok" (ctx returned), "Failed" or "RecursionError"  *)

\* a Neq that compares the two variables without walking them
Neq_unwalked(k, c) == IF k.vars[1] = k.vars[2] THEN "Failed" ELSE "ok"

Neq_call(k, c) ==
    LET lhs == walk(c, k.vars[1])
        rhs == walk(c, k.vars[2])
    IN  IF lhs = RecursionError THEN RecursionError
        ELSE IF rhs = RecursionError THEN RecursionError
        ELSE IF lhs = rhs THEN "Failed"
        ELSE "ok"

\* a Distinct that compares its first two variables only
Distinct_pair(k, c) == IF Len(k.vars) < 2 THEN "ok" ELSE Neq_call(k, c)

RECURSIVE Distinct_loop(_, _, _, _)
Distinct_loop(k, c, i, walked) ==
    IF i > Len(k.vars) THEN "ok"
    ELSE LET val == walk(c, k.vars[i]) IN
         IF val = RecursionError THEN RecursionError
         ELSE IF val \in walked THEN "Failed"
         ELSE Distinct_loop(k, c, i + 1, walked \cup {val})

Distinct_call(k, c) == Distinct_loop(k, c, 1, {})

RECURSIVE Notin_loop(_, _, _, _)
\* the loops over self.cvars, from index i of vars on
Notin_loop(k, c, i, val) ==
    IF i > Len(k.vars) THEN "ok"
    ELSE LET val2 == walk(c, k.vars[i]) IN
         IF val2 = RecursionError THEN RecursionError
         ELSE IF isVar(val) /\ isVar(val2) /\ val = val2 THEN "Failed"
         ELSE IF ~isVar(val) /\ ~isVar(val2) /\ val2 = val THEN "Failed"
         ELSE Notin_loop(k, c, i + 1, val)

\* a Notin that checks its forbidden variables only, never its literals
Notin_novals(k, c) ==
    LET val == walk(c, k.vars[1]) IN
    IF val = RecursionError THEN RecursionError
    ELSE Notin_loop(k, c, 2, val)

Notin_call(k, c) ==
    LET val == walk(c, k.vars[1]) IN
    IF val = RecursionError THEN RecursionError
    ELSE IF isVar(val) THEN Notin_loop(k, c, 2, val)
    ELSE IF val \in k.cvals THEN "Failed"
    ELSE Notin_loop(k, c, 2, val)

constraint_call(k, c) ==
    CASE k.kind = "Neq"      -> Neq_call(k, c)
      [] k.kind = "Distinct" -> Distinct_call(k, c)
      [] k.kind = "Notin"    -> Notin_call(k, c)

-----------------------------------------------------------------------------
(* Constraints facet *)

RECURSIVE constrain_loop(_, _, _)
constrain_loop(k, c, i) ==
    IF i > Len(k.vars) THEN c
    ELSE constrain_loop(k,
            [c EXCEPT !.cons[k.vars[i]] = @ \cup {k}, !.failed = FALSE],
            i + 1)

\* ConstraintVarsABC.constrain: Constraints.constrain for each of its vars
constrain(k, c) == constrain_loop(k, c, 1)

\* a propagate that stores the constraints of dst alone
propagate_dst(c, src, dst) ==
    [c EXCEPT !.cons[dst] = c.cons[dst], !.failed = FALSE]

\* Constraints.propagate: the hook_propagate event has no callback here
propagate(c, src, dst) ==
    [c EXCEPT !.cons[dst] = c.cons[dst] \cup c.cons[src], !.failed = FALSE]

\* Constraints.substitution_cb: the set of results it can return.  The
\* constraints are iterated in the order of a hash set, and the loop ends at
\* the first one that fails or whose walk does not return.
substitution_cb(c, var, val) ==
    LET c1    == IF val \in Vars THEN propagate(c, var, val) ELSE c
        cs    == IF val \in Vars THEN c1.cons[val] ELSE c1.cons[var]
        fails == {k \in cs : constraint_call(k, c1) = "Failed"}
        recs  == {k \in cs : constraint_call(k, c1) = RecursionError}
    IN  (IF fails # {} THEN {Ret(Failed)} ELSE {})
        \cup (IF recs # {} THEN {Raise} ELSE {})
        \cup (IF fails = {} /\ recs = {} THEN {Ret(c1)} ELSE {})

\* the callbacks a substitution pipeline can hold
callback(name, c, var, val) ==
    CASE name = "substitution_cb" -> substitution_cb(c, var, val)
      \* SolverABC's subs_cb counts the step and returns ctx, data as given
      [] name = "subs_cb"         -> {Ret(c)}
      \* install_metrics' unification_cb counts and returns ctx, data too
      [] name = "unification_cb"  -> {Ret(c)}

RECURSIVE run_all(_, _, _, _)
\* HooksPipelines.run_all on Substitutions.hook_substitution: the cons list
\* of callbacks is read once, then each is called on the context returned by
\* the one before it
run_all(cbs, o, var, val) ==
    IF cbs = <<>> \/ o.exc THEN {o}
    ELSE UNION { run_all(Tail(cbs), o1, var, val) :
                    o1 \in callback(Head(cbs), o.ctx, var, val) }

\* Constraints.install
install(c) ==
    [c EXCEPT !.pipe = <<"substitution_cb">> \o @, !.failed = FALSE]

-----------------------------------------------------------------------------
(* Substitutions.sub and Unification.unify *)

sub(c, var, val) ==
    LET c1 == [c EXCEPT !.subs[var] = val, !.failed = FALSE]
    IN  run_all(c1.pipe, Ret(c1), var, val)

\* a unify that substitutes for a variable on the left-hand side only
unify_left(c, a, b) ==
    LET x == walk(c, a)
        y == walk(c, b)
    IN  IF x = RecursionError \/ y = RecursionError THEN {Raise}
        ELSE IF x = y \/ x = WILD \/ y = WILD THEN {Ret(c)}
        ELSE IF isVar(x) THEN sub(c, x, y)
        ELSE IF isEmpty(c) \/ x = y THEN {Ret(c)}
        ELSE {Ret(Failed)}

unify(c, a, b) ==
    LET x == walk(c, a)
        y == walk(c, b)
    IN  IF x = RecursionError \/ y = RecursionError THEN {Raise}
        ELSE IF x = y \/ x = WILD \/ y = WILD THEN {Ret(c)}
        ELSE IF isVar(x) THEN sub(c, x, y)
        ELSE IF isVar(y) THEN sub(c, y, x)
        \* the hook_unify pipeline has no callback here
        ELSE IF isEmpty(c) \/ x = y THEN {Ret(c)}
        ELSE {Ret(Failed)}

-----------------------------------------------------------------------------
(* Specification Spec: calls on one threaded context *)

NoCall == [n |-> 0, op |-> "none", a |-> NoKey, b |-> NoKey, pre |-> NoCtx,
           res |-> Ret(NoCtx)]

OrIdle ==
    /\ goals = <<>> /\ pos = <<>> /\ round = <<>> /\ out = <<>>
    /\ stopped = FALSE

HooksIdle == /\ hooks = <<>> /\ regs = <<>> /\ run = <<>>

FacetsIdle == heap = <<>> /\ fop = <<>>

PermIdle ==
    /\ pgoal = <<>> /\ pframes = <<>> /\ ppend = <<>> /\ psols = <<>>
    /\ pstate = "idle"

InstallIdle == ictx = <<>> /\ ilast = <<>>

FactsGoalIdle == fcall = <<>> /\ fre = <<>>

ReifIdle == vreif = <<>> /\ vlast = <<>>

TableIdle == tarr = <<>> /\ tab = <<>>

AndIdle == agoal = <<>> /\ ares = <<>>

SolverIdle == solver = <<>> /\ scalls = <<>>

SetIdle == pset = <<>> /\ setop = <<>>

WalkIdle == whooks = <<>>

NotinObjIdle == nheap = <<>> /\ nlast = <<>>

AgainIdle == aagain = <<>>

CelIdle == cel = <<>>

LateIdle == WalkIdle /\ NotinObjIdle /\ AgainIdle /\ CelIdle

MoreIdle ==
    ReifIdle /\ TableIdle /\ AndIdle /\ SolverIdle /\ SetIdle /\ LateIdle

\* for each of these groups, the other groups of moreVars are idle
NotReifIdle  == TableIdle /\ AndIdle /\ SolverIdle /\ SetIdle
                     /\ LateIdle
NotTableIdle == ReifIdle /\ AndIdle /\ SolverIdle /\ SetIdle
                     /\ LateIdle
NotAndIdle   == ReifIdle /\ TableIdle /\ SolverIdle /\ SetIdle
                     /\ LateIdle
NotSolverIdle == ReifIdle /\ TableIdle /\ AndIdle /\ SetIdle
                     /\ LateIdle
NotSetIdle ==
    ReifIdle /\ TableIdle /\ AndIdle /\ SolverIdle /\ LateIdle

ExtIdle ==
    FacetsIdle /\ PermIdle /\ InstallIdle /\ FactsGoalIdle /\ MoreIdle

Init ==
    /\ ctx = NoCtx
    /\ last = NoCall
    /\ OrIdle
    /\ HooksIdle
    /\ ExtIdle

\* a caller keeps the context it had when the call fails or raises
threaded(c, o) == IF isOk(o) THEN o.ctx ELSE c

\* the record of call number last.n + 1
call(op, a, b, o) ==
    [n |-> last.n + 1, op |-> op, a |-> a, b |-> b, pre |-> ctx, res |-> o]

Install ==
    /\ last.n < MaxOps
    /\ ctx.pipe = <<>>
    /\ ctx' = install(ctx)
    /\ last' = call("install", NoKey, NoKey, Ret(install(ctx)))
    /\ UNCHANGED <<orVars, hookVars, extVars>>

Constrain ==
    /\ last.n < MaxOps
    /\ \E k \in ConstraintSet :
        /\ k \notin ctx.cons[k.vars[1]]
        /\ ctx' = constrain(k, ctx)
        /\ last' = call("constrain", k.kind, NoKey, Ret(constrain(k, ctx)))
        /\ UNCHANGED <<orVars, hookVars, extVars>>

Sub ==
    /\ last.n < MaxOps
    /\ \E var \in Vars, val \in Vars \cup Vals :
       \E o \in sub(ctx, var, val) :
        /\ ctx' = threaded(ctx, o)
        /\ last' = call("sub", var, val, o)
        /\ UNCHANGED <<orVars, hookVars, extVars>>

\* Eq(a, b)(ctx): yields unify(ctx, a, b) unless it is Failed
Unify ==
    /\ last.n < MaxOps
    /\ \E a \in Terms, b \in Terms :
       \E o \in unify(ctx, a, b) :
        /\ ctx' = threaded(ctx, o)
        /\ last' = call("unify", a, b, o)
        /\ UNCHANGED <<orVars, hookVars, extVars>>

Next == Install \/ Constrain \/ Sub \/ Unify

Spec == Init /\ [][Next]_vars

-----------------------------------------------------------------------------
(* Specification SpecNeq: substitutions made after Neq(x, y) is attached,  *)
(* to a context with or without the Constraints hook installed             *)

InitNeq ==
    /\ ctx \in {constrain(Neq("x", "y"), NoCtx),
                constrain(Neq("x", "y"), install(NoCtx))}
    /\ last = NoCall
    /\ OrIdle
    /\ HooksIdle
    /\ ExtIdle

NextNeq == Sub \/ Unify

SpecNeq == InitNeq /\ [][NextNeq]_vars

-----------------------------------------------------------------------------
(* Properties of sub, walk, unify and the constraints (specification Spec) *)

\* Constraints.install has hooked substitution_cb
installed(c) == c.pipe # <<>>

\* every constraint stored under every variable returns the context
holds(c) == \A v \in Vars : \A k \in c.cons[v] : constraint_call(k, c) = "ok"

\* no constraint stored under any variable returns Failed
noneFailed(c) ==
    \A v \in Vars : \A k \in c.cons[v] : constraint_call(k, c) # "Failed"

\* the context sub builds before the pipeline runs
bound(c, var, val) == [c EXCEPT !.subs[var] = val, !.failed = FALSE]

\* the walks of x and y both return, with the same terminal
walksEqual(c, s, t) ==
    walk(c, s) # RecursionError /\ walk(c, s) = walk(c, t)

\* two results of a call bind the terms the same way up to the direction of
\* variable-to-variable bindings
sameClasses(c1, c2) ==
    \A s \in Terms, t \in Terms :
        (walk(c1, s) = walk(c1, t)) <=> (walk(c2, s) = walk(c2, t))

\* C2: a context yielded by a goal (Eq, so unify) from a context with the
\* constraints installed and all satisfied, satisfies every constraint
\* attached to every variable: none returns Failed on it.
C2_YieldedSatisfies ==
    (/\ last.op = "unify"
     /\ isOk(last.res)
     /\ installed(last.pre)
     /\ holds(last.pre))
    => noneFailed(last.res.ctx)

C4_WalkTerminates ==
    \A v \in Vars : walk(ctx, v) # RecursionError

\* C5: when sub(c, v, w) returns c', walk(c', v) returns the walk of w in c'
\* and does not come back to v.
C5_SubThenWalk ==
    (last.op = "sub" /\ isOk(last.res))
    => /\ walk(last.res.ctx, last.a) # RecursionError
       /\ walk(last.res.ctx, last.a) = walk(last.res.ctx, last.b)

\* C6 as claimed: unify(c, a, b) is Failed exactly when unify(c, b, a) is,
\* and when both succeed every variable walks to the same value in both.
C6_UnifySymmetricWalks ==
    last.op = "unify" =>
        \E o2 \in unify(last.pre, last.b, last.a) :
            /\ last.res.exc = o2.exc
            /\ last.res.ctx.failed = o2.ctx.failed
            /\ isOk(last.res) =>
                \A v \in Vars : walk(last.res.ctx, v) = walk(o2.ctx, v)

\* C6 amended: unify(c, a, b) is Failed exactly when unify(c, b, a) is, and
\* when both succeed any two terms walk to the same terminal in one result
\* exactly when they do in the other.
C6_UnifySymmetricClasses ==
    last.op = "unify" =>
        \E o2 \in unify(last.pre, last.b, last.a) :
            /\ last.res.exc = o2.exc
            /\ last.res.ctx.failed = o2.ctx.failed
            /\ isOk(last.res) => sameClasses(last.res.ctx, o2.ctx)

C6_Witness ==
    /\ last.op = "unify"
    /\ isOk(last.res)
    /\ last.a \in Vars
    /\ last.b \in Vars
    /\ last.pre.subs[last.a] \in Vars
    /\ walk(last.pre, last.a) \in Vars
    /\ walk(last.pre, last.b) \in Vars
    /\ walk(last.pre, last.a) # walk(last.pre, last.b)
    /\ installed(last.pre)
    /\ last.pre.cons[walk(last.pre, last.a)] # {}

\* C7: unify(c, a, a) returns a context equal to c and nothing fails.
C7_UnifySelf ==
    (last.op = "unify" /\ last.a = last.b)
    => last.res = Ret(last.pre)

\* C8: when the two walked terms are different non-variables (no unify
\* extension is registered), unify returns the Failed object itself.
C8_FailedByIdentity ==
    (/\ last.op = "unify"
     /\ walk(last.pre, last.a) \in Vals
     /\ walk(last.pre, last.b) \in Vals
     /\ walk(last.pre, last.a) # walk(last.pre, last.b))
    => (~last.res.exc /\ last.res.ctx.failed)


-----------------------------------------------------------------------------
(* Specification SpecOr: Or(g1, g2)(c), a stream built by mconcat *)

\* the length of a stream that never ends
Infinite == -1

\* the i-th context of the stream of sub-goal g
item(g, i) == <<g, i>>

\* the stream of sub-goal g can yield after p contexts
active(gs, ps, g) == gs[g] = Infinite \/ ps[g] < gs[g]

RECURSIVE chain(_, _, _)
\* a round that draws from the first sub-stream that is not exhausted only
chain(gs, ps, g) ==
    IF g > Len(gs) THEN <<>>
    ELSE IF active(gs, ps, g) THEN <<item(g, ps[g] + 1)>>
    ELSE chain(gs, ps, g + 1)

RECURSIVE zip_longest(_, _, _)
\* one round of interleave_longest: next() on every sub-stream in order,
\* the exhausted ones are skipped
zip_longest(gs, ps, g) ==
    IF g > Len(gs) THEN <<>>
    ELSE (IF active(gs, ps, g) THEN <<item(g, ps[g] + 1)>> ELSE <<>>)
         \o zip_longest(gs, ps, g + 1)

\* mconcat = interleave_longest
mconcat(gs, ps) == zip_longest(gs, ps, 1)

\* the positions of the sub-streams after a round
advance(gs, ps) ==
    [g \in 1..Len(gs) |->
        IF \E j \in 1..Len(mconcat(gs, ps)) : mconcat(gs, ps)[j][1] = g
        THEN ps[g] + 1 ELSE ps[g]]

StreamLens == 0..MaxK \cup {Infinite}

SubIdle == ctx = NoCtx /\ last = NoCall

InitOr ==
    /\ goals \in [1..2 -> StreamLens]
    /\ pos = [g \in 1..2 |-> 0]
    /\ round = <<>>
    /\ out = <<>>
    /\ stopped = FALSE
    /\ SubIdle
    /\ HooksIdle
    /\ ExtIdle

\* next() when the last round is used up: a new round is drawn from the
\* sub-streams and its first context is yielded
OrDraw ==
    /\ ~stopped
    /\ Len(out) < MaxOut
    /\ round = <<>>
    /\ mconcat(goals, pos) # <<>>
    /\ out' = Append(out, Head(mconcat(goals, pos)))
    /\ round' = Tail(mconcat(goals, pos))
    /\ pos' = advance(goals, pos)
    /\ UNCHANGED <<goals, stopped, subVars, hookVars, extVars>>

\* next() inside a round: the next context of the round is yielded
OrYield ==
    /\ ~stopped
    /\ Len(out) < MaxOut
    /\ round # <<>>
    /\ out' = Append(out, Head(round))
    /\ round' = Tail(round)
    /\ UNCHANGED <<goals, pos, stopped, subVars, hookVars, extVars>>

\* next() when every sub-stream is exhausted
OrStop ==
    /\ ~stopped
    /\ round = <<>>
    /\ mconcat(goals, pos) = <<>>
    /\ stopped' = TRUE
    /\ UNCHANGED <<goals, pos, round, out, subVars, hookVars, extVars>>

NextOr == OrDraw \/ OrYield \/ OrStop

SpecOr == InitOr /\ [][NextOr]_vars

\* C1: for Or(g1, g2) with g1 infinite and g2 yielding k contexts, the
\* first 2k+1 contexts of Or(g1, g2)(c) include all k contexts of g2.
C1_OrFair ==
    (/\ goals[1] = Infinite
     /\ goals[2] # Infinite
     /\ Len(out) >= 2 * goals[2] + 1)
    => \A j \in 1..goals[2] :
          \E i \in 1..(2 * goals[2] + 1) : out[i] = item(2, j)

C1_Witness ==
    /\ goals[1] = Infinite
    /\ goals[2] >= 2
    /\ goals[2] # Infinite
    /\ Len(out) = 2 * goals[2] + 1
    /\ out[2 * goals[2]] = item(2, goals[2])
    /\ out[2 * goals[2] + 1] = item(1, goals[2] + 1)

-----------------------------------------------------------------------------
(* Specification SpecHooks: the hook registries of a context *)

HookClasses == {"HooksEvents", "HooksPipelines", "HooksBroadcasts"}

\* hook keys: any hashable for events and pipelines, a tuple for broadcasts
HookKeys == {<<>>, <<"a">>, <<"a", "b">>, <<"b">>}

\* the data handed to run(): a value and its type
Args == {[type |-> "int", v |-> 1]}

\* a pipeline also runs on data of another type, as the (var, val) pair of
\* hook_substitution
PipelineArgs == Args \cup {[type |-> "tuple", v |-> 1]}

CBs == {"cb1", "cb2", "short", "short_none"}

\* a callback applied to (ctx, data): what it returns, or what the
\* HooksShortCircuit it raises carries (ctx and val are None by default).
\* The context is the sequence of the callbacks that have changed it.
\* "short" raises HooksShortCircuit(ctx, 0), "short_none" HooksShortCircuit().
cb_call(cb, c, d) ==
    CASE cb = "cb1" ->
            [raised |-> FALSE, has_ctx |-> TRUE, ctx |-> Append(c, cb),
             has_val |-> TRUE, val |-> [d EXCEPT !.v = @ + 1]]
      [] cb = "cb2" ->
            [raised |-> FALSE, has_ctx |-> TRUE, ctx |-> Append(c, cb),
             has_val |-> TRUE, val |-> [d EXCEPT !.v = @ * 2]]
      [] cb = "short" ->
            [raised |-> TRUE, has_ctx |-> TRUE, ctx |-> Append(c, cb),
             has_val |-> TRUE, val |-> [type |-> "int", v |-> 0]]
      [] OTHER ->
            [raised |-> TRUE, has_ctx |-> FALSE, ctx |-> c,
             has_val |-> FALSE, val |-> d]

\* the facet of a registry class in a context without hooks, with the
\* HooksEffectfulCBs, Hypotheticals and Indirections facets of that context
NoHooks(cls) ==
    [cls |-> cls, facet |-> [k \in HookKeys |-> <<>>], effectful |-> {},
     hypothetical |-> FALSE, indirection |-> FALSE]

\* cls.get(ctx, key); a key without callbacks has the default ()
get(h, key) == h.facet[key]

\* a hook() that puts the callback behind the ones already registered
hook_append(h, key, cb) == [h EXCEPT !.facet[key] = Append(get(h, key), cb)]

\* HooksABC.hook: cls.set(ctx, key, (cb, cls.get(ctx, key)))
hook(h, key, cb) == [h EXCEPT !.facet[key] = <<cb>> \o get(h, key)]

\* HooksABC.hook with effectful=True: HooksEffectfulCBs.add(ctx, cb) first
hook_effectful(h, key, cb) ==
    hook([h EXCEPT !.effectful = @ \cup {cb}], key, cb)

\* Hypotheticals.get_hypothetical: marks the context and, for each registry
\* class, HooksABC.hypothetical sets Indirections[cls.run_all] = cls.run_pure
get_hypothetical(h) ==
    IF h.hypothetical THEN h
    ELSE [h EXCEPT !.hypothetical = TRUE, !.indirection = TRUE]

\* the state of a run: context, data, the invocations made, whether the
\* loop over the callbacks was left by break, whether RuntimeError was raised
RunState(c, d) ==
    [ctx |-> c, data |-> d, calls |-> <<>>, stop |-> FALSE, fatal |-> FALSE]

\* one invocation as the run made it
Invocation(cb, at, st, r, out_data) ==
    [cb |-> cb, at |-> at, ctx_in |-> st.ctx, data_in |-> st.data,
     ctx_out |-> r.ctx, data_out |-> out_data, raised |-> r.raised,
     has_val |-> r.has_val]

\* body of the loop of HooksEvents.run_all and HooksBroadcasts.run_all
event_step(cb, at, st) ==
    LET r == cb_call(cb, st.ctx, st.data)
        st1 == [st EXCEPT !.calls = Append(@, Invocation(cb, at, st, r, st.data))]
    IN  IF ~r.raised THEN [st1 EXCEPT !.ctx = r.ctx]
        ELSE [st1 EXCEPT !.ctx = IF r.has_ctx THEN r.ctx ELSE @,
                         !.stop = TRUE]

\* a pipeline that drops a short-circuit value it cannot use and goes on
\* with the next callback
pipeline_step_skip(cb, at, st) ==
    LET r == cb_call(cb, st.ctx, st.data)
        st1 == [st EXCEPT !.calls = Append(@, Invocation(cb, at, st, r, r.val))]
    IN  IF ~r.raised THEN [st1 EXCEPT !.ctx = r.ctx, !.data = r.val]
        ELSE IF r.has_val /\ r.val.type = st.data.type
             THEN [st1 EXCEPT !.data = r.val,
                              !.ctx = IF r.has_ctx THEN r.ctx ELSE @,
                              !.stop = TRUE]
             ELSE st1

\* body of the loop of HooksPipelines.run_all; e.val is used when
\* e.val is not None and isinstance(e.val, type(arg)), RuntimeError otherwise
pipeline_step(cb, at, st) ==
    LET r == cb_call(cb, st.ctx, st.data)
        st1 == [st EXCEPT !.calls = Append(@, Invocation(cb, at, st, r, r.val))]
    IN  IF ~r.raised THEN [st1 EXCEPT !.ctx = r.ctx, !.data = r.val]
        ELSE IF r.has_val /\ r.val.type = st.data.type
             THEN [st1 EXCEPT !.data = r.val,
                              !.ctx = IF r.has_ctx THEN r.ctx ELSE @,
                              !.stop = TRUE]
             ELSE [st1 EXCEPT !.stop = TRUE, !.fatal = TRUE]

RECURSIVE loop(_, _, _, _)
\* for cb in cons_to_iterable(cls.get(ctx, key)): ... break
loop(cls, cbs, at, st) ==
    IF cbs = <<>> THEN st
    ELSE LET st1 == IF cls = "HooksPipelines"
                    THEN pipeline_step(Head(cbs), at, st)
                    ELSE event_step(Head(cbs), at, st)
         IN  IF st1.stop THEN st1 ELSE loop(cls, Tail(cbs), at, st1)

HooksEvents_run_all(h, key, arg) ==
    loop("HooksEvents", get(h, key), key, RunState(<<>>, arg))

HooksPipelines_run_all(h, key, arg) ==
    loop("HooksPipelines", get(h, key), key, RunState(<<>>, arg))

\* key[:i]
prefix(key, i) == SubSeq(key, 1, i)

RECURSIVE broadcast_exact(_, _, _, _)
\* a broadcast that looks under the whole key only
broadcast_exact(h, key, i, st) ==
    IF i < Len(key) \/ i = 0 THEN st
    ELSE loop("HooksBroadcasts", get(h, key), key, st)

RECURSIVE broadcast_loop(_, _, _, _)
\* for k in (key[:i] for i in range(len(key), 0, -1)): the break leaves
\* the loop over the callbacks of k only
broadcast_loop(h, key, i, st) ==
    IF i = 0 THEN st
    ELSE broadcast_loop(h, key, i - 1,
            [loop("HooksBroadcasts", get(h, prefix(key, i)), prefix(key, i), st)
                EXCEPT !.stop = FALSE])

HooksBroadcasts_run_all(h, key, arg) ==
    broadcast_loop(h, key, Len(key), RunState(<<>>, arg))

NoArg == [type |-> "none", v |-> 0]

NoRun == [cls |-> "none", key |-> <<>>, arg |-> NoArg,
          res |-> RunState(<<>>, NoArg)]

InitHooks ==
    /\ hooks \in {NoHooks(cls) : cls \in HookClasses}
    /\ regs = <<>>
    /\ run = NoRun
    /\ SubIdle
    /\ OrIdle
    /\ ExtIdle

\* cls.hook(ctx, key, cb)
Hook ==
    /\ Len(regs) < MaxHooks
    /\ \E key \in HookKeys, cb \in CBs :
        /\ hooks' = hook(hooks, key, cb)
        /\ regs' = Append(regs, [key |-> key, cb |-> cb])
        /\ run' = NoRun
        /\ UNCHANGED <<subVars, orVars, extVars>>

\* HooksEvents.run(ctx, key, arg); run = run_all in the class body, so the
\* call does not go through Indirections.invoke
RunEvents ==
    \E key \in HookKeys, arg \in Args :
        /\ hooks.cls = "HooksEvents"
        /\ run' = [cls |-> hooks.cls, key |-> key, arg |-> arg,
                   res |-> HooksEvents_run_all(hooks, key, arg)]
        /\ UNCHANGED <<hooks, regs, subVars, orVars, extVars>>

\* HooksPipelines.run(ctx, key, arg); run = run_all
RunPipelines ==
    \E key \in HookKeys, arg \in PipelineArgs :
        /\ hooks.cls = "HooksPipelines"
        /\ run' = [cls |-> hooks.cls, key |-> key, arg |-> arg,
                   res |-> HooksPipelines_run_all(hooks, key, arg)]
        /\ UNCHANGED <<hooks, regs, subVars, orVars, extVars>>

\* HooksBroadcasts.run(ctx, key, arg); run = run_all
RunBroadcasts ==
    \E key \in HookKeys, arg \in Args :
        /\ hooks.cls = "HooksBroadcasts"
        /\ run' = [cls |-> hooks.cls, key |-> key, arg |-> arg,
                   res |-> HooksBroadcasts_run_all(hooks, key, arg)]
        /\ UNCHANGED <<hooks, regs, subVars, orVars, extVars>>

NextHooks == Hook \/ RunEvents \/ RunPipelines \/ RunBroadcasts

SpecHooks == InitHooks /\ [][NextHooks]_vars

RECURSIVE registered(_, _)
\* the callbacks the hook() calls rs have put under key, newest first
registered(rs, key) ==
    IF rs = <<>> THEN <<>>
    ELSE registered(Tail(rs), key)
         \o (IF Head(rs).key = key THEN <<[at |-> key, cb |-> Head(rs).cb]>>
             ELSE <<>>)

RECURSIVE registeredAtPrefixes(_, _, _)
\* the callbacks under the prefixes key[:i], ..., key[:1], longest first
registeredAtPrefixes(rs, key, i) ==
    IF i = 0 THEN <<>>
    ELSE registered(rs, prefix(key, i)) \o registeredAtPrefixes(rs, key, i - 1)

invoked(r) == [i \in 1..Len(r.res.calls) |->
                  [at |-> r.res.calls[i].at, cb |-> r.res.calls[i].cb]]

noneRaised(r) == \A i \in 1..Len(r.res.calls) : ~r.res.calls[i].raised

isPrefix(s, t) == Len(s) <= Len(t) /\ SubSeq(t, 1, Len(s)) = s

\* every invocation receives the context the previous one returned, the
\* first one the context handed to run()
ctxThreaded(r) ==
    \A i \in 1..Len(r.res.calls) :
        r.res.calls[i].ctx_in =
            IF i = 1 THEN <<>> ELSE r.res.calls[i - 1].ctx_out

\* every invocation receives the data the previous one returned
dataThreaded(r) ==
    \A i \in 1..Len(r.res.calls) :
        r.res.calls[i].data_in =
            IF i = 1 THEN r.arg ELSE r.res.calls[i - 1].data_out

\* C9: event and pipeline hooks run the callbacks registered under the key
\* newest first (all of them when none short-circuits), each receiving the
\* context, and for a pipeline the data, returned by the previous callback.
C9_NewestFirstThreaded ==
    run.cls \in {"HooksEvents", "HooksPipelines"} =>
        /\ isPrefix(invoked(run), registered(regs, run.key))
        /\ noneRaised(run) => invoked(run) = registered(regs, run.key)
        /\ ctxThreaded(run)
        /\ dataThreaded(run)
        /\ noneRaised(run) /\ run.res.calls # <<>> =>
              /\ run.res.ctx = run.res.calls[Len(run.res.calls)].ctx_out
              /\ run.res.data = run.res.calls[Len(run.res.calls)].data_out

C9_Witness ==
    /\ run.cls = "HooksPipelines"
    /\ Len(run.res.calls) >= 2
    /\ noneRaised(run)
    /\ run.res.calls[1].cb # run.res.calls[2].cb
    /\ run.res.calls[2].data_in # run.arg
    /\ \E i \in 1..Len(regs) : regs[i].key # run.key

C11_ShortCircuitEndsRun ==
    run.cls \in HookClasses =>
        \A i \in 1..Len(run.res.calls) :
            run.res.calls[i].raised => i = Len(run.res.calls)

\* an invocation that raised a short-circuit whose value is not None and
\* not of the type of the data in flight
wrongType(inv) ==
    inv.raised /\ inv.has_val /\ inv.data_out.type # inv.data_in.type

\* C12: a pipeline short-circuit carrying a replacement value whose type is
\* not compatible with the value in flight ends the run with a fatal error:
\* no callback runs after it and the run returns no result.
C12_WrongTypeFatal ==
    run.cls = "HooksPipelines" =>
        \A i \in 1..Len(run.res.calls) :
            wrongType(run.res.calls[i]) =>
                run.res.fatal /\ i = Len(run.res.calls)

C12_Witness ==
    /\ run.cls = "HooksPipelines"
    /\ Len(run.res.calls) >= 2
    /\ ~run.res.calls[1].raised
    /\ wrongType(run.res.calls[2])
    /\ Len(get(hooks, run.key)) >= 3
    /\ run.res.fatal

-----------------------------------------------------------------------------
(* Specification SpecHypo: hooks registered as effectful or not, on a       *)
(* context that Hypotheticals.get_hypothetical may mark as hypothetical     *)

EffKeys == {<<"a">>, <<"a", "b">>}

\* cls.hook(ctx, key, cb, effectful=eff)
HookWith ==
    /\ Len(regs) < MaxEffHooks
    /\ \E key \in EffKeys, cb \in CBs, eff \in BOOLEAN :
        /\ hooks' = IF eff THEN hook_effectful(hooks, key, cb)
                    ELSE hook(hooks, key, cb)
        /\ regs' = Append(regs, [key |-> key, cb |-> cb])
        /\ run' = NoRun
        /\ UNCHANGED <<subVars, orVars, extVars>>

\* ctx = Hypotheticals.get_hypothetical(ctx)
GetHypothetical ==
    /\ hooks' = get_hypothetical(hooks)
    /\ run' = NoRun
    /\ UNCHANGED <<regs, subVars, orVars, extVars>>

NextHypo ==
    HookWith \/ GetHypothetical \/ RunEvents \/ RunPipelines \/ RunBroadcasts

SpecHypo == InitHooks /\ [][NextHypo]_vars

\* C13: in a context obtained from Hypotheticals.get_hypothetical, a run of
\* any hook registry invokes no callback that was registered as effectful.
C13_HypotheticalSkipsEffectful ==
    (hooks.hypothetical /\ run.cls \in HookClasses) =>
        \A i \in 1..Len(run.res.calls) :
            run.res.calls[i].cb \notin hooks.effectful

-----------------------------------------------------------------------------
(* Specification SpecFacets: FacetABC calls on contexts. Contexts and      *)
(* facets are immutables.Map objects, kept here in a heap so that a call   *)
(* that changed an object in place would show.                             *)

FKeys == {"key", "key2"}

FVals == {"val", "val2"}

Absent == "absent"

\* the default of the facet class (F1.default in test_Facets)
default == "default"

\* the heap positions of FacetABC.default_whole and of NoCtx
DefaultWholeId == 1

NoCtxId == 2

NoFacet == 0

EmptyMap == [kind |-> "map", m |-> [k \in FKeys |-> Absent], whole |-> NoFacet]

\* a context: a Map holding the facet's whole Map, or not holding the facet
CtxObj(wid) == [kind |-> "ctx", m |-> EmptyMap.m, whole |-> wid]

\* the result of an operation that allocates: the heap and the object made
Made(h, obj) == [exc |-> FALSE, heap |-> Append(h, obj), id |-> Len(h) + 1]

KeyError(h) == [exc |-> TRUE, heap |-> h, id |-> 0]

\* a Map.set that writes into the object it is called on
Map_set_inplace(h, id, k, v) ==
    [exc |-> FALSE, heap |-> [h EXCEPT ![id].m[k] = v], id |-> id]

\* Map.set(key, val): a new Map
Map_set(h, id, k, v) == Made(h, [h[id] EXCEPT !.m[k] = v])

\* Map.delete(key): a new Map, KeyError when the key is not in the Map
Map_delete(h, id, k) ==
    IF h[id].m[k] = Absent THEN KeyError(h)
    ELSE Made(h, [h[id] EXCEPT !.m[k] = Absent])

\* with Map.mutate() as m: m.update(updates); m.finish(): a new Map
Map_mutated(h, id, updates) ==
    Made(h, [h[id] EXCEPT !.m = [k \in FKeys |->
                IF updates[k] = Absent THEN @[k] ELSE updates[k]]])

\* ctx.set(cls, whole): a new context
Ctx_set(h, c, wid) == Made(h, CtxObj(wid))

\* FacetABC.get_whole(ctx)
get_whole(h, c) ==
    IF h[c].whole = NoFacet THEN DefaultWholeId ELSE h[c].whole

\* FacetABC.get(ctx, key)
Facet_get(h, c, k) ==
    IF h[get_whole(h, c)].m[k] = Absent THEN default
    ELSE h[get_whole(h, c)].m[k]

\* FacetABC.set_whole(ctx, whole)
Facet_set_whole(h, c, wid) == Ctx_set(h, c, wid)

\* FacetABC.set(ctx, key, val)
Facet_set(h, c, k, v) ==
    LET w == Map_set(h, get_whole(h, c), k, v)
    IN  Ctx_set(w.heap, c, w.id)

\* FacetABC.delete(ctx, key)
Facet_delete(h, c, k) ==
    LET w == Map_delete(h, get_whole(h, c), k)
    IN  IF w.exc THEN w ELSE Ctx_set(w.heap, c, w.id)

\* FacetABC.update(ctx, updates) and FacetABC.mutate(ctx, mutator), with a
\* mutator that assigns the items of updates
Facet_update(h, c, updates) ==
    LET w == Map_mutated(h, get_whole(h, c), updates)
    IN  Facet_set_whole(w.heap, c, w.id)

\* the mappings handed to update and assigned by the mutators
Updates ==
    { [k \in FKeys |-> IF k = "key" THEN "val2" ELSE "val"],
      [k \in FKeys |-> IF k = "key" THEN Absent ELSE "val2"] }

isCtx(h, id) == h[id].kind = "ctx"

isMap(h, id) == h[id].kind = "map"

\* what every get on context c returns
snapshot(h, c) == [k \in FKeys |-> Facet_get(h, c, k)]

InitFacets ==
    /\ heap = <<EmptyMap, CtxObj(NoFacet)>>
    /\ fop = [n |-> 0, op |-> "none", old |-> NoCtxId,
              before |-> snapshot(heap, NoCtxId), exc |-> FALSE,
              new |-> NoCtxId]
    /\ SubIdle
    /\ OrIdle
    /\ HooksIdle
    /\ MoreIdle
    /\ PermIdle
    /\ InstallIdle
    /\ FactsGoalIdle

\* the record of a facet call on context c with result r
facetCall(op, c, r) ==
    [n |-> fop.n + 1, op |-> op, old |-> c, before |-> snapshot(heap, c),
     exc |-> r.exc, new |-> r.id]

FacetStep(op, c, r) ==
    /\ heap' = r.heap
    /\ fop' = facetCall(op, c, r)
    /\ UNCHANGED <<moreVars,
                   subVars, orVars, hookVars, permVars, installVars, factVars>>

FSet ==
    /\ fop.n < MaxFacetOps
    /\ \E c \in DOMAIN heap, k \in FKeys, v \in FVals :
        /\ isCtx(heap, c)
        /\ FacetStep("set", c, Facet_set(heap, c, k, v))

FDelete ==
    /\ fop.n < MaxFacetOps
    /\ \E c \in DOMAIN heap, k \in FKeys :
        /\ isCtx(heap, c)
        /\ FacetStep("delete", c, Facet_delete(heap, c, k))

FSetWhole ==
    /\ fop.n < MaxFacetOps
    /\ \E c \in DOMAIN heap, w \in DOMAIN heap :
        /\ isCtx(heap, c)
        /\ isMap(heap, w)
        /\ FacetStep("set_whole", c, Facet_set_whole(heap, c, w))

FUpdate ==
    /\ fop.n < MaxFacetOps
    /\ \E c \in DOMAIN heap, u \in Updates :
        /\ isCtx(heap, c)
        /\ FacetStep("update", c, Facet_update(heap, c, u))

FMutate ==
    /\ fop.n < MaxFacetOps
    /\ \E c \in DOMAIN heap, u \in Updates :
        /\ isCtx(heap, c)
        /\ FacetStep("mutate", c, Facet_update(heap, c, u))

NextFacets == FSet \/ FDelete \/ FSetWhole \/ FUpdate \/ FMutate

SpecFacets == InitFacets /\ [][NextFacets]_vars

\* C14: every facet update (set, set_whole, update, mutate, delete) leaves
\* the context passed in unchanged: every get on the old context returns
\* after the call what it returned before.
C14_OldContextUnchanged ==
    fop.op # "none" => snapshot(heap, fop.old) = fop.before

C14_Witness ==
    /\ fop.op = "set"
    /\ ~fop.exc
    /\ fop.old # NoCtxId
    /\ fop.before["key"] = "val"
    /\ Facet_get(heap, fop.new, "key") = "val2"
    /\ Facet_get(heap, fop.old, "key") = "val"

-----------------------------------------------------------------------------
(* Specification SpecPerm: the Solver iterating over                       *)
(* the goal And(Or(Eq(v, 0), ..., Eq(v, n-1)) for each v, Distinct(vars)) *)
(* (examples/permutations.py).  No goal of this And is GoalCtxSized, so    *)
(* And.__call__ finds no shared distribution, adds no Notin and keeps the  *)
(* order of its goals: it attaches Distinct and returns                    *)
(* mbind(mbind(goals[0](ctx), goals[1]), ...).                             *)

\* the variables Vars.fresh can hand out
PermVars == <<"x", "y", "z">>

\* range(n), as the value names of the model
range(n) == {ValNames[i] : i \in 1..n}

\* the orders in which the Eq sub-goals of an Or can be listed
Orderings(n) ==
    {s \in [1..n -> range(n)] : \A i, j \in 1..n : i # j => s[i] # s[j]}

PermGoal(n, order) == [vars |-> SubSeq(PermVars, 1, n), vals |-> order]

\* SolverABC.__pyata_solver_pre_init__: Constraints.install, then subs_cb is
\* hooked on the substitution pipeline (newest first)
Solver_pre_init(c) == [install(c) EXCEPT !.pipe = <<"subs_cb">> \o @]

\* And.__call__ up to the call of goals[0]: the constraints are attached
And_call(g, c) == constrain(Distinct(g.vars), c)

\* an Or stream: the context it was called on, the Eq goals drawn so far
Frame(c) == [ctx |-> c, i |-> 0]

\* Vars.walk_reify_vars(ctx, vars); int(val) is val
walk_reify_vars(c, vs) == [k \in 1..Len(vs) |-> walk(c, vs[k])]

InitPerm ==
    /\ \E n \in 1..Len(PermVars) : \E order \in Orderings(n) :
        pgoal = PermGoal(n, order)
    /\ pframes = <<>>
    /\ ppend = <<>>
    /\ psols = <<>>
    /\ pstate = "init"
    /\ ctx = Solver_pre_init(NoCtx)
    /\ last = NoCall
    /\ OrIdle
    /\ HooksIdle
    /\ MoreIdle
    /\ FacetsIdle
    /\ InstallIdle
    /\ FactsGoalIdle

\* Solver.__iter__: stream_iter = iter(self.goal(self.ctx))
PermIter ==
    /\ pstate = "init"
    /\ pstate' = "run"
    /\ pframes' = <<Frame(And_call(pgoal, ctx))>>
    /\ UNCHANGED <<ctx, last, pgoal, ppend, psols>>
    /\ UNCHANGED <<moreVars,
                   orVars, hookVars, facetVars, installVars, factVars>>

\* the innermost Or stream draws its next Eq(v, val)(ctx): unify substitutes
\* val for v, subs_cb stores the substituted context in solver.ctx, and the
\* context is yielded unless it is Unification.Failed
PermEq ==
    /\ pstate = "run"
    /\ ppend = <<>>
    /\ pframes # <<>>
    /\ LET d   == Len(pframes)
           fr  == pframes[d]
           v   == pgoal.vars[d]
       IN  /\ fr.i < Len(pgoal.vals)
           /\ LET val == pgoal.vals[fr.i + 1] IN
              \E o \in unify(fr.ctx, v, val) :
               /\ pframes' = [pframes EXCEPT ![d].i = fr.i + 1]
               /\ pstate' = IF o.exc THEN "raised" ELSE "run"
               /\ ppend' = IF isOk(o) THEN <<o.ctx>> ELSE <<>>
               /\ ctx' = IF isVar(walk(fr.ctx, v)) /\ walk(fr.ctx, v) # WILD
                            /\ walk(fr.ctx, v) # val
                         THEN [fr.ctx EXCEPT !.subs[walk(fr.ctx, v)] = val,
                                             !.failed = FALSE]
                         ELSE ctx
    /\ UNCHANGED <<last, pgoal, psols>>
    /\ UNCHANGED <<moreVars,
                   orVars, hookVars, facetVars, installVars, factVars>>

\* mbind: the context yielded by goals[d] is passed to goals[d + 1]
PermBind ==
    /\ pstate = "run"
    /\ ppend # <<>>
    /\ Len(pframes) < Len(pgoal.vars)
    /\ pframes' = Append(pframes, Frame(ppend[1]))
    /\ ppend' = <<>>
    /\ UNCHANGED <<ctx, last, pgoal, psols, pstate>>
    /\ UNCHANGED <<moreVars,
                   orVars, hookVars, facetVars, installVars, factVars>>

\* Solver.__next__ returns: the context yielded by the last goal becomes
\* solver.ctx and is reified over solver.vars
PermYield ==
    /\ pstate = "run"
    /\ ppend # <<>>
    /\ Len(pframes) = Len(pgoal.vars)
    /\ ctx' = ppend[1]
    /\ psols' = Append(psols, walk_reify_vars(ppend[1], pgoal.vars))
    /\ ppend' = <<>>
    /\ UNCHANGED <<last, pgoal, pframes, pstate>>
    /\ UNCHANGED <<moreVars,
                   orVars, hookVars, facetVars, installVars, factVars>>

\* the innermost Or stream has drawn all its Eq goals: mbind goes back to
\* the stream before it
PermExhausted ==
    /\ pstate = "run"
    /\ ppend = <<>>
    /\ pframes # <<>>
    /\ pframes[Len(pframes)].i = Len(pgoal.vals)
    /\ pframes' = SubSeq(pframes, 1, Len(pframes) - 1)
    /\ UNCHANGED <<ctx, last, pgoal, ppend, psols, pstate>>
    /\ UNCHANGED <<moreVars,
                   orVars, hookVars, facetVars, installVars, factVars>>

\* the outermost stream is exhausted: Solver.__next__ raises StopIteration
PermStop ==
    /\ pstate = "run"
    /\ pframes = <<>>
    /\ pstate' = "stop"
    /\ UNCHANGED <<ctx, last, pgoal, pframes, ppend, psols>>
    /\ UNCHANGED <<moreVars,
                   orVars, hookVars, facetVars, installVars, factVars>>

NextPerm ==
    PermIter \/ PermEq \/ PermBind \/ PermYield \/ PermExhausted \/ PermStop

SpecPerm == InitPerm /\ [][NextPerm]_vars

RECURSIVE factorial(_)
factorial(n) == IF n = 0 THEN 1 ELSE n * factorial(n - 1)

\* C15: for n variables each under Or(Eq(v, 0), ..., Eq(v, n-1)), conjoined
\* with Distinct over all of them, the solver yields exactly n! solutions,
\* pairwise different, each a permutation of (0..n-1).
C15_Permutations ==
    pstate = "stop" =>
        LET n == Len(pgoal.vars) IN
        /\ Len(psols) = factorial(n)
        /\ \A i, j \in 1..Len(psols) : i # j => psols[i] # psols[j]
        /\ \A i \in 1..Len(psols) :
            /\ Len(psols[i]) = n
            /\ {psols[i][k] : k \in 1..n} = range(n)

C15_Witness ==
    /\ pstate = "stop"
    /\ Len(pgoal.vars) = 3
    /\ Len(psols) = 6
    /\ psols[1] # psols[6]

-----------------------------------------------------------------------------
(* Specification SpecNotin: substitutions made after Notin(z, S) is        *)
(* attached for a literal set S, to a context with or without the          *)
(* Constraints hook installed                                              *)

\* the literal sets S
NotinSets == {{ValNames[1]}, Vals}

InitNotin ==
    /\ \E S \in NotinSets : \E c \in {NoCtx, install(NoCtx)} :
        ctx = constrain(Notin("z", <<>>, S), c)
    /\ last = NoCall
    /\ OrIdle
    /\ HooksIdle
    /\ ExtIdle

NextNotin == Sub \/ Unify

SpecNotin == InitNotin /\ [][NextNotin]_vars

\* the last call is sub(ctx, z, a) on a context where z is unbound and
\* carries the constraint k = Notin(z, S)
subOnNotin(k) ==
    /\ last.op = "sub"
    /\ last.a = "z"
    /\ last.pre.subs["z"] = NoKey
    /\ k \in last.pre.cons["z"]
    /\ k.kind = "Notin"
    /\ k.vars = <<"z">>

\* C16 as claimed: with Notin(z, S) attached to the unbound variable z,
\* sub(ctx, z, a) returns Failed if and only if a is in S.
C16_NotinFailsIffMember ==
    \A k \in last.pre.cons["z"] :
        subOnNotin(k) => (last.res = Ret(Failed) <=> last.b \in k.cvals)

\* C16 amended: with Notin(z, S) attached to the unbound variable z of a
\* context on which Constraints.install has hooked substitution_cb,
\* sub(ctx, z, a) returns Failed if and only if a walks to a member of S.
C16_NotinFailsIffWalksToMember ==
    \A k \in last.pre.cons["z"] :
        (subOnNotin(k) /\ installed(last.pre)) =>
            (last.res = Ret(Failed) <=> walk(last.pre, last.b) \in k.cvals)

C16_Witness ==
    /\ last.op = "sub"
    /\ last.a = "z"
    /\ installed(last.pre)
    /\ last.pre.subs["z"] = NoKey
    /\ last.pre.subs["x"] = "z"
    /\ last.pre.cons["z"] = {Notin("z", <<>>, {ValNames[1]})}
    /\ last.b = ValNames[1]
    /\ last.res = Ret(Failed)

\* a sub(z, a) for a outside S that returns a context
C16_WitnessOk ==
    /\ last.op = "sub"
    /\ last.a = "z"
    /\ installed(last.pre)
    /\ last.pre.subs["z"] = NoKey
    /\ last.pre.cons["z"] = {Notin("z", <<>>, {ValNames[1]})}
    /\ last.b = ValNames[2]
    /\ isOk(last.res)

-----------------------------------------------------------------------------
(* Specification SpecInstall: Installations.install of heuristics          *)
(* (CtxInstallable objects, compared by identity) on one context           *)

\* instances of HeurFactsOrdRnd
Installables == {"h1", "h2", "h3"}

HOOK_FACTS == "hook_facts"

\* the facets of NoCtx that install reads and writes
NoInstalls == [facet |-> [k \in {HOOK_FACTS} |-> <<>>], installations |-> <<>>]

\* Installations.get_installations
get_installations(c) == {c.installations[i] : i \in 1..Len(c.installations)}

\* HeurFactsOrdRnd.__ctx_install__: FactsGoal.hook_facts(ctx, self)
ctx_install(h, c) == hook(c, HOOK_FACTS, h)

\* the result of a call: the context returned, or RuntimeError raised
Installed(c) == [exc |-> FALSE, ctx |-> c]

AlreadyInstalled == [exc |-> TRUE, ctx |-> NoInstalls]

\* an install that does not look at the installations made before
Installations_install_unchecked(c, h) ==
    Installed([ctx_install(h, c) EXCEPT !.installations = <<h>> \o @])

Installations_install(c, h) ==
    IF h \in get_installations(c) THEN AlreadyInstalled
    ELSE Installed([ctx_install(h, c) EXCEPT !.installations = <<h>> \o @])

NoInstallCall == [n |-> 0, who |-> "none", pre |-> NoInstalls,
                  res |-> Installed(NoInstalls)]

InitInstall ==
    /\ ictx = NoInstalls
    /\ ilast = NoInstallCall
    /\ SubIdle
    /\ OrIdle
    /\ HooksIdle
    /\ MoreIdle
    /\ FacetsIdle
    /\ PermIdle
    /\ FactsGoalIdle

\* ctx = Installations.install(ctx, h); the caller keeps its context when
\* the call raises
Install_h ==
    /\ ilast.n < MaxInstalls
    /\ \E h \in Installables :
        LET r == Installations_install(ictx, h) IN
        /\ ictx' = IF r.exc THEN ictx ELSE r.ctx
        /\ ilast' = [n |-> ilast.n + 1, who |-> h, pre |-> ictx, res |-> r]
    /\ UNCHANGED <<moreVars,
                   subVars, orVars, hookVars, facetVars, permVars, factVars>>

NextInstall == Install_h

SpecInstall == InitInstall /\ [][NextInstall]_vars

\* the number of times e occurs in the sequence s
RECURSIVE occurrences(_, _)
occurrences(s, e) ==
    IF s = <<>> THEN 0
    ELSE (IF Head(s) = e THEN 1 ELSE 0) + occurrences(Tail(s), e)

\* C19 as claimed: installing an installable that is already installed on
\* the context returns a context equivalent to the one it was given.
C19_SecondInstallNoEffect ==
    ilast.who \in get_installations(ilast.pre) =>
        (~ilast.res.exc /\ ilast.res.ctx = ilast.pre)

\* C19 amended: installing an installable that is already installed raises
\* RuntimeError and returns no context; the context given is left as it
\* was, so every installable is recorded at most once and its
\* __ctx_install__ has hooked it as often as it is recorded.
C19_SecondInstallRaises ==
    /\ ilast.who \in get_installations(ilast.pre) =>
            (ilast.res.exc /\ ictx = ilast.pre)
    /\ \A h \in Installables :
        /\ occurrences(ictx.installations, h) <= 1
        /\ occurrences(get(ictx, HOOK_FACTS), h)
            = occurrences(ictx.installations, h)

C19_Witness ==
    /\ ilast.who \in get_installations(ilast.pre)
    /\ ilast.res.exc
    /\ Len(ictx.installations) >= 2
    /\ ictx.installations[Len(ictx.installations)] = ilast.who

-----------------------------------------------------------------------------
(* Specification SpecFactsGoal: a FactsGoal R(args) of a FactsTable over   *)
(* the array [[1,2,3],[1,2,4],[5,6,7]], called on a context built by       *)
(* Constraints.install, constrain and Eq goals, and called again on a      *)
(* context it yielded.  No hook_facts or factcheck callback is hooked and  *)
(* the context is not hypothetical.  A distribution is kept as its set of  *)
(* values: the counts only travel in the broadcast data.                   *)

\* FactsTable.arr
FactRows == << <<"1", "2", "3">>, <<"1", "2", "4">>, <<"5", "6", "7">> >>

\* the argument tuples of the relation calls R(*args)
FactArgs ==
    { <<"1", WILD, "x">>, <<"x", "y", "z">>, <<"1", "2", "x">>,
      <<"x", "x", "y">>, <<"9", "x", "y">> }

\* the ground values Eq binds a variable to before the goal is called
FactVals == {"1", "3", "4"}

\* the constraints attached before the goal is called
FactConstraints == { Notin("x", <<>>, {"3"}), Neq("x", "y") }

\* FactsTable.distribution[col]: the values of a column
column(i) == {FactRows[r][i] : r \in 1..Len(FactRows)}

ixs(n) == [i \in 1..n |-> i]

\* FactsGoal.free_ixs, FactsGoal.bound_ixs
free_ixs(args) ==
    LET free(i) == isVar(args[i]) IN SelectSeq(ixs(Len(args)), free)

bound_ixs(args) == {i \in 1..Len(args) : ~isVar(args[i])}

\* FactsGoal._short_circuit_fail
short_circuit_fail(args) == \E i \in bound_ixs(args) : args[i] \notin column(i)

\* FactsGoal.distribution[var]: the dict comprehension keeps, for a variable
\* at several columns, the distribution of the last of them
distribution(args, var) ==
    LET at == {i \in 1..Len(args) : args[i] = var}
    IN  column(CHOOSE i \in at : \A j \in at : j <= i)

\* Constraints.get(ctx, var): a variable without constraints has the default
consOf(c, var) == IF var \in Vars THEN c.cons[var] ELSE {}

\* the only member of a set of results
one(S) == CHOOSE o \in S : TRUE

\* Notin.expand over literals: self when nothing is added
expand(k, coll) ==
    IF coll \subseteq k.cvals THEN k ELSE [k EXCEPT !.cvals = @ \cup coll]

\* Notin.get_cset
get_cset(k, c) ==
    k.cvals \cup {walk(c, k.vars[i]) : i \in 2..Len(k.vars)}

\* FactsGoal._get_var_notin: the Notin to use and whether that object is one
\* stored in the context.  Several single-variable Notin are merged into the
\* first of them in set order.
get_var_notin(c, var) ==
    LET var_notins ==
            {k \in consOf(c, var) : k.kind = "Notin" /\ Len(k.vars) = 1}
    IN  IF var_notins = {}
        THEN [k |-> Notin(var, <<>>, {}), stored |-> FALSE]
        ELSE LET first  == CHOOSE k \in var_notins : TRUE
                 merged == expand(first,
                              UNION {get_cset(k, c) : k \in var_notins})
             IN  [k |-> merged, stored |-> merged = first]

\* Constraints.evolve_var_constraint: Set.discard(old) is Map.delete, which
\* raises KeyError when old is not in the set
evolve_var_constraint(st, var, n, new) ==
    IF ~(n.stored /\ n.k \in consOf(st.ctx, var))
    THEN [st EXCEPT !.status = "KeyError"]
    ELSE [st EXCEPT !.ctx.cons[var] = (@ \ {n.k}) \cup {new}]

\* the rows whose columns at the ground arguments equal them, without
\* looking at the arguments
all_rows(args) == 1..Len(FactRows)

\* FactsGoal._filtered: the mask of the ground arguments
bound_mask(args) ==
    {r \in 1..Len(FactRows) :
        \A i \in bound_ixs(args) : FactRows[r][i] = args[i]}

\* FactsGoal._filtered: the argument variable walks to a ground value of its
\* domain
filter_ground(st, fix, var, n, domain, val) ==
    LET st1 == evolve_var_constraint(st, var, n, expand(n.k, domain \ {val}))
    IN  [st1 EXCEPT !.mask = {r \in @ : FactRows[r][fix] = val}]

\* FactsGoal._filtered: the look-ahead on Hypotheticals.get_hypothetical(ctx)
\* for an argument variable that walks to the variable val
filter_ahead(st, fix, n, domain, val) ==
    one({ LET raises == {v \in domain : ahead[v].exc}
              fails  == {v \in domain :
                            ~ahead[v].exc /\ ahead[v].ctx.failed}
          IN  IF raises # {} THEN [st EXCEPT !.status = RecursionError]
              ELSE IF fails = domain THEN [st EXCEPT !.status = "none"]
              ELSE IF fails = {}
              THEN [st EXCEPT !.mask =
                       {r \in @ : FactRows[r][fix] \notin fails}]
              ELSE evolve_var_constraint(
                      [st EXCEPT !.mask =
                          {r \in @ : FactRows[r][fix] \notin fails}],
                      val, n, expand(n.k, fails)) :
            ahead \in {[v \in domain |-> one(unify(st.ctx, val, v))]} })

\* FactsGoal._filtered: the body of the loop over free_ixs.  status is "ok",
\* "none" (return None), or the exception raised.
filter_step(st, args, fix) ==
    one({ IF domain = {} THEN [st EXCEPT !.status = "none"]
          ELSE IF val = RecursionError
          THEN [st EXCEPT !.status = RecursionError]
          ELSE IF ~isVar(val)
          THEN IF val \notin domain THEN [st EXCEPT !.status = "none"]
               ELSE filter_ground(st, fix, var, n, domain, val)
          ELSE filter_ahead(st, fix, n, domain, val) :
            var \in {args[fix]},
            n \in {get_var_notin(st.ctx, args[fix])},
            domain \in {distribution(args, args[fix])
                           \ get_cset(get_var_notin(st.ctx, args[fix]).k,
                                      st.ctx)},
            val \in {walk(st.ctx, args[fix])} })

RECURSIVE filter_loop(_, _, _)
filter_loop(st, args, fixs) ==
    IF fixs = <<>> \/ st.status # "ok" THEN st
    ELSE one({filter_loop(s, args, Tail(fixs)) :
                 s \in {filter_step(st, args, Head(fixs))}})

\* FactsGoal._filtered
filtered(c, args) ==
    LET st == filter_loop([ctx |-> c, mask |-> bound_mask(args),
                           status |-> "ok"], args, free_ixs(args))
    IN  IF st.status = "ok" /\ st.mask = {}
        THEN [st EXCEPT !.status = "none"]
        ELSE st

RECURSIVE unify_fact(_, _, _, _)
\* FactsGoal.__call__: the loop over free_ixs for one fact; the result of
\* the last unify made
unify_fact(o, args, row, fixs) ==
    IF fixs = <<>> \/ ~isOk(o) THEN o
    ELSE one({unify_fact(u, args, row, Tail(fixs)) :
                 u \in unify(o.ctx, args[Head(fixs)], row[Head(fixs)])})

\* what the stream of a goal produced: the contexts yielded, and the
\* exception that ended it, if any
Stream(ys, exc) == [yields |-> ys, raised |-> exc]

RECURSIVE facts_loop_ctx(_, _, _, _)
\* the loop over the filtered facts when it yields ctx instead of ctx2
facts_loop_ctx(c, args, rows, ys) ==
    IF rows = <<>> THEN Stream(ys, "none")
    ELSE one({IF o.exc THEN Stream(ys, RecursionError)
              ELSE facts_loop_ctx(c, args, Tail(rows),
                      IF o.ctx.failed THEN ys ELSE Append(ys, c)) :
                 o \in {unify_fact(Ret(c), args, FactRows[Head(rows)],
                                   free_ixs(args))}})

RECURSIVE facts_loop(_, _, _, _)
\* FactsGoal.__call__: the loop over the filtered facts
facts_loop(c, args, rows, ys) ==
    IF rows = <<>> THEN Stream(ys, "none")
    ELSE one({IF o.exc THEN Stream(ys, RecursionError)
              ELSE facts_loop(c, args, Tail(rows),
                      IF o.ctx.failed THEN ys ELSE Append(ys, o.ctx)) :
                 o \in {unify_fact(Ret(c), args, FactRows[Head(rows)],
                                   free_ixs(args))}})

\* FactsGoal.__call__
FactsGoal_call(c, args) ==
    IF short_circuit_fail(args) THEN Stream(<<>>, "none")
    ELSE one({LET kept(r) == r \in f.mask
              IN  IF f.status = "none" THEN Stream(<<>>, "none")
                  ELSE IF f.status # "ok" THEN Stream(<<>>, f.status)
                  ELSE facts_loop(f.ctx, args,
                                  SelectSeq(ixs(Len(FactRows)), kept), <<>>) :
                 f \in {filtered(c, args)}})

NoFactCall == [n |-> 0, called |-> FALSE, args |-> <<>>, pre |-> NoCtx,
               res |-> Stream(<<>>, "none")]

NoRecall == [done |-> FALSE, i |-> 0, res |-> Stream(<<>>, "none")]

InitFactsGoal ==
    /\ ctx = NoCtx
    /\ last = NoCall
    /\ fcall = NoFactCall
    /\ fre = NoRecall
    /\ OrIdle
    /\ HooksIdle
    /\ MoreIdle
    /\ FacetsIdle
    /\ PermIdle
    /\ InstallIdle

\* a call made on the context before the goal is called
prepared(c) ==
    /\ ctx' = c
    /\ fcall' = [fcall EXCEPT !.n = @ + 1]
    /\ UNCHANGED <<last, fre>>
    /\ UNCHANGED <<moreVars,
                   orVars, hookVars, facetVars, permVars, installVars>>

FGInstall ==
    /\ ~fcall.called
    /\ fcall.n < MaxFactOps
    /\ ctx.pipe = <<>>
    /\ prepared(install(ctx))

FGConstrain ==
    /\ ~fcall.called
    /\ fcall.n < MaxFactOps
    /\ \E k \in FactConstraints :
        /\ k \notin ctx.cons[k.vars[1]]
        /\ prepared(constrain(k, ctx))

\* Eq(a, b)(ctx) for a variable a, when it yields a context
FGEq ==
    /\ ~fcall.called
    /\ fcall.n < MaxFactOps
    /\ \E a \in Vars, b \in Vars \cup FactVals :
       \E o \in unify(ctx, a, b) :
        /\ isOk(o)
        /\ prepared(o.ctx)

\* list(R(*args)(ctx))
FGCall ==
    /\ ~fcall.called
    /\ \E args \in FactArgs :
        fcall' = [fcall EXCEPT !.called = TRUE, !.args = args, !.pre = ctx,
                               !.res = FactsGoal_call(ctx, args)]
    /\ UNCHANGED <<ctx, last, fre>>
    /\ UNCHANGED <<moreVars,
                   orVars, hookVars, facetVars, permVars, installVars>>

\* list(R(*args)(c)) for a context c the goal yielded
FGRecall ==
    /\ fcall.called
    /\ ~fre.done
    /\ \E i \in 1..Len(fcall.res.yields) :
        fre' = [done |-> TRUE, i |-> i,
                res |-> FactsGoal_call(fcall.res.yields[i], fcall.args)]
    /\ UNCHANGED <<ctx, last, fcall>>
    /\ UNCHANGED <<moreVars,
                   orVars, hookVars, facetVars, permVars, installVars>>

NextFactsGoal == FGInstall \/ FGConstrain \/ FGEq \/ FGCall \/ FGRecall

SpecFactsGoal == InitFactsGoal /\ [][NextFactsGoal]_vars

\* the contexts yielded by the goal, on the first call and on the second
yielded ==
    {fcall.res.yields[i] : i \in 1..Len(fcall.res.yields)}
        \cup {fre.res.yields[i] : i \in 1..Len(fre.res.yields)}

\* row r has the ground arguments at their columns
matches(args, r) ==
    \A i \in 1..Len(args) : ~isVar(args[i]) => FactRows[r][i] = args[i]

\* context c binds every argument among vs to the value of row r at its
\* column
bindsRow(c, args, r, vs) ==
    \A i \in 1..Len(args) :
        args[i] \in vs => walk(c, args[i]) = FactRows[r][i]

\* row r is consistent with the bindings and the constraints of context c:
\* its values unify with the arguments and no constraint fails afterwards
consistent(c, args, r) ==
    LET o == unify_fact(Ret(c), args, FactRows[r], free_ixs(args))
    IN  isOk(o) /\ noneFailed(o.ctx)

\* C17 as claimed: every context yielded by R(args)(c) binds each argument
\* variable, the wildcard included, to the value at its column of a single
\* row whose columns at the ground arguments equal them.
C17_YieldsBindEveryVar ==
    fcall.called =>
        \A c \in yielded :
            \E r \in 1..Len(FactRows) :
                /\ matches(fcall.args, r)
                /\ bindsRow(c, fcall.args, r, Vars \cup {WILD})

\* C17 amended: every context yielded by R(args)(c) binds each argument
\* variable other than the wildcard to the value at its column of a single
\* row whose columns at the ground arguments equal them.
C17_YieldsBindNamedVars ==
    fcall.called =>
        \A c \in yielded :
            \E r \in 1..Len(FactRows) :
                /\ matches(fcall.args, r)
                /\ bindsRow(c, fcall.args, r, Vars)

C17_Witness ==
    /\ fcall.called
    /\ fcall.args = <<"1", WILD, "x">>
    /\ fcall.pre.subs["y"] = "x"
    /\ Len(fcall.res.yields) = 2
    /\ walk(fcall.res.yields[1], "y") = "3"
    /\ walk(fcall.res.yields[2], "y") = "4"

\* C18: the goal loses no solution: for every row that matches the ground
\* arguments and is consistent with the bindings and constraints of the
\* context, the goal yields a context that binds the argument variables to
\* the values of that row.
C18_NoRowLost ==
    fcall.called =>
        \A r \in 1..Len(FactRows) :
            (matches(fcall.args, r) /\ consistent(fcall.pre, fcall.args, r))
            => \E i \in 1..Len(fcall.res.yields) :
                  bindsRow(fcall.res.yields[i], fcall.args, r, Vars)

\* C20: a FactsGoal called again on a context it yielded produces that
\* context unchanged: it does not fail and adds nothing.
C20_ReapplyUnchanged ==
    fre.done =>
        /\ fre.res.raised = "none"
        /\ fre.res.yields = <<fcall.res.yields[fre.i]>>


-----------------------------------------------------------------------------
(* Specification SpecReifiers: Vars.contextualize calls on a context whose *)
(* VarsReifiers facet records a reifier for some variables.                *)

\* the reifiers given to contextualize
Reifiers == {"chr", "int"}

\* the tuples of variables one contextualize call is given
VarTuples ==
    {<<a>> : a \in Vars} \cup {<<a, b>> : a \in Vars, b \in Vars}

\* FacetABC.set on the VarsReifiers facet
VarsReifiers_set(f, var, reifier) ==
    [v \in DOMAIN f \cup {var} |-> IF v = var THEN reifier ELSE f[v]]

\* Vars.contextualize with a set that overwrites the recorded reifier
RECURSIVE contextualize_overwrite(_, _, _, _, _)
contextualize_overwrite(f, vartyps, reifier, vs, cconflict) ==
    IF vs = <<>> THEN [ctx |-> f, conflict |-> cconflict, exc |-> FALSE]
    ELSE contextualize_overwrite(VarsReifiers_set(f, Head(vs), reifier),
             vartyps, reifier, Tail(vs),
             IF Head(vs) \in DOMAIN vartyps
             THEN Append(cconflict, Head(vs)) ELSE cconflict)

\* Vars.contextualize: the loop over vars.  vartyps is the facet read once
\* before the loop.
RECURSIVE contextualize_loop(_, _, _, _, _)
contextualize_loop(f, vartyps, reifier, vs, cconflict) ==
    IF vs = <<>> THEN [ctx |-> f, conflict |-> cconflict, exc |-> FALSE]
    ELSE IF Head(vs) \notin DOMAIN vartyps
    THEN contextualize_loop(VarsReifiers_set(f, Head(vs), reifier),
                            vartyps, reifier, Tail(vs), cconflict)
    ELSE contextualize_loop(f, vartyps, reifier, Tail(vs),
                            Append(cconflict, Head(vs)))

\* Vars.contextualize
contextualize(f, reifier, vs) == contextualize_loop(f, f, reifier, vs, <<>>)

NoContextualize ==
    [n |-> 0, reifier |-> "none", vars |-> <<>>, pre |-> <<>>,
     res |-> [ctx |-> <<>>, conflict |-> <<>>, exc |-> FALSE]]

InitReifiers ==
    /\ vreif = <<>>
    /\ vlast = NoContextualize
    /\ SubIdle
    /\ OrIdle
    /\ HooksIdle
    /\ FacetsIdle
    /\ PermIdle
    /\ InstallIdle
    /\ FactsGoalIdle
    /\ NotReifIdle

\* ctx, conflict = Vars.contextualize(ctx, reifier, *vars)
Contextualize ==
    /\ vlast.n < MaxContextualize
    /\ \E reifier \in Reifiers, vs \in VarTuples :
        LET r == contextualize(vreif, reifier, vs)
        IN  /\ vlast' = [n |-> vlast.n + 1, reifier |-> reifier, vars |-> vs,
                         pre |-> vreif, res |-> r]
            /\ vreif' = IF r.exc THEN vreif ELSE r.ctx
    /\ UNCHANGED <<subVars, orVars, hookVars>>
    /\ UNCHANGED <<facetVars, permVars, installVars, factVars, notReif>>

NextReifiers == Contextualize

SpecReifiers == InitReifiers /\ [][NextReifiers]_vars

\* the variables of the last call that had another reifier recorded
reifierConflicts ==
    {v \in DOMAIN vlast.pre :
        /\ \E i \in 1..Len(vlast.vars) : vlast.vars[i] = v
        /\ vlast.pre[v] # vlast.reifier}

\* C21 as claimed: contextualizing an existing variable with a reifier
\* different from the one recorded for it ends in a fatal error, never in a
\* normal return.
C21_ConflictFatal ==
    (vlast.n > 0 /\ reifierConflicts # {}) => vlast.res.exc

\* C21 amended: contextualize always returns normally; a variable that had
\* a reifier recorded before the call keeps it and is returned in the
\* conflict tuple, whether the reifier given is different or the same, and
\* every other variable given gets the reifier.
C21_ConflictReturned ==
    vlast.n > 0 =>
        /\ ~vlast.res.exc
        /\ \A i \in 1..Len(vlast.vars) :
            LET v == vlast.vars[i]
            IN  IF v \in DOMAIN vlast.pre
                THEN /\ vlast.res.ctx[v] = vlast.pre[v]
                     /\ \E j \in 1..Len(vlast.res.conflict) :
                            vlast.res.conflict[j] = v
                ELSE /\ vlast.res.ctx[v] = vlast.reifier
                     /\ \A j \in 1..Len(vlast.res.conflict) :
                            vlast.res.conflict[j] # v

C21_Witness ==
    /\ vlast.n > 0
    /\ reifierConflicts # {}
    /\ vlast.vars = <<"x", "y">>
    /\ vlast.pre = [v \in {"x"} |-> "chr"]
    /\ vlast.reifier = "int"
    /\ vlast.res.conflict = <<"x">>


-----------------------------------------------------------------------------
(* Specification SpecTable: FactsTable(arr, name) for a two-dimensional    *)
(* array of at most MaxRows rows, the empty ones included.                 *)

\* arr.shape[1] of the arrays given
Arities == {1, 2}

\* the two-dimensional arrays: shape (rows, cols) and the rows
Arrays ==
    UNION { { [shape |-> <<n, k>>, rows |-> rs] :
                rs \in [1..n -> [1..k -> Vals]] } :
            n \in 0..MaxRows, k \in Arities }

\* len(arr)
len(arr) == arr.shape[1]

\* np.unique(arr[:, col], return_counts=True) as a dict val -> count
unique_counts(arr, col) ==
    [val \in {arr.rows[r][col] : r \in 1..len(arr)} |->
        Cardinality({r \in 1..len(arr) : arr.rows[r][col] = val})]

\* FactsTable.__init__ without its assert
FactsTable_init_unchecked(arr, name) ==
    [exc |-> "none", arr |-> arr, name |-> <<name, arr.shape[2]>>,
     distribution |-> [col \in 1..arr.shape[2] |-> unique_counts(arr, col)]]

\* FactsTable.__init__: exc is the exception raised, arr and distribution
\* the attributes of the table constructed
FactsTable_init(arr, name) ==
    IF ~(len(arr) > 0)
    THEN [exc |-> "AssertionError", arr |-> <<>>, name |-> <<>>,
          distribution |-> <<>>]
    ELSE [exc |-> "none", arr |-> arr, name |-> <<name, arr.shape[2]>>,
          distribution |->
              [col \in 1..arr.shape[2] |-> unique_counts(arr, col)]]

NoTable == [called |-> FALSE, res |-> <<>>]

InitTable ==
    /\ tarr \in Arrays
    /\ tab = NoTable
    /\ SubIdle
    /\ OrIdle
    /\ HooksIdle
    /\ FacetsIdle
    /\ PermIdle
    /\ InstallIdle
    /\ FactsGoalIdle
    /\ NotTableIdle

\* R = FactsTable(arr, "R")
NewFactsTable ==
    /\ ~tab.called
    /\ tab' = [called |-> TRUE, res |-> FactsTable_init(tarr, "R")]
    /\ UNCHANGED <<tarr, subVars, orVars, hookVars>>
    /\ UNCHANGED <<facetVars, permVars, installVars, factVars, notTable>>

NextTable == NewFactsTable

SpecTable == InitTable /\ [][NextTable]_vars

\* the sum of the counts of a distribution
RECURSIVE total(_, _)
total(d, keys) ==
    IF keys = {} THEN 0
    ELSE LET k == CHOOSE k \in keys : TRUE
         IN  d[k] + total(d, keys \ {k})

\* C22: constructing a fact table from an array of zero rows raises, so a
\* table that was constructed has at least one row; the counts of each
\* column's distribution then add up to the row count.
C22_EmptyRejected ==
    tab.called =>
        /\ len(tarr) = 0 => tab.res.exc # "none"
        /\ tab.res.exc = "none" =>
            /\ len(tab.res.arr) >= 1
            /\ \A col \in 1..tab.res.arr.shape[2] :
                total(tab.res.distribution[col],
                      DOMAIN tab.res.distribution[col]) = len(tab.res.arr)

C22_Witness ==
    /\ tab.called
    /\ tarr.shape = <<0, 2>>
    /\ tab.res.exc = "AssertionError"


-----------------------------------------------------------------------------
(* Specification SpecAnd: And(goal, *goals_or_constraints)(ctx) next to    *)
(* goal(ctx), for Eq goals, an Or of Eq goals and FactsGoals of the table  *)
(* FactRows.  At most one goal of an And is sized (a FactsGoal), so no     *)
(* variable is shared between sized goals and the heuristics only move     *)
(* the sized goal to the front.                                            *)

EqG(a, b) == [kind |-> "Eq", a |-> a, b |-> b]

OrG(gs) == [kind |-> "Or", goals |-> gs]

FactsG(args) == [kind |-> "Facts", args |-> args]

\* the goals given to And
AndSubGoals ==
    { EqG("x", "1"), EqG("x", "y"), EqG("y", "3"),
      OrG(<<EqG("x", "3"), EqG("x", "4")>>),
      FactsG(<<"1", "2", "x">>), FactsG(<<"x", "y", "z">>) }

\* isinstance(goal, GoalCtxSized)
sized(g) == g.kind = "Facts"

\* Eq.__call__
Eq_call(g, c) ==
    one({ IF o.exc THEN Stream(<<>>, RecursionError)
          ELSE IF o.ctx.failed THEN Stream(<<>>, "none")
          ELSE Stream(<<o.ctx>>, "none") : o \in unify(c, g.a, g.b) })

RECURSIVE Or_loop(_, _, _)
\* Or.__call__ over Eq goals: mconcat of streams of at most one context
\* takes them in goal order, up to the first that raises
Or_loop(gs, c, ys) ==
    IF gs = <<>> THEN Stream(ys, "none")
    ELSE one({ IF s.raised # "none" THEN Stream(ys, s.raised)
               ELSE Or_loop(Tail(gs), c, ys \o s.yields) :
                   s \in {Eq_call(Head(gs), c)} })

\* goal(ctx), consumed to its end
Goal_call(g, c) ==
    CASE g.kind = "Eq" -> Eq_call(g, c)
      [] g.kind = "Or" -> Or_loop(g.goals, c, <<>>)
      [] g.kind = "Facts" -> FactsGoal_call(c, g.args)

\* a size that counts the rows matching the ground arguments only when the
\* context holds no substitution
ctx_len_unbound(g, c) ==
    [n |-> IF \A v \in Vars : c.subs[v] = NoKey
           THEN Cardinality(bound_mask(g.args)) ELSE 0,
     exc |-> "none"]

\* FactsGoal.__ctx_len__: the size, or the exception raised
ctx_len(g, c) ==
    IF short_circuit_fail(g.args) THEN [n |-> 0, exc |-> "none"]
    ELSE one({ IF f.status = "none" THEN [n |-> 0, exc |-> "none"]
               ELSE IF f.status # "ok" THEN [n |-> 0, exc |-> f.status]
               ELSE [n |-> Cardinality(f.mask), exc |-> "none"] :
                   f \in {filtered(c, g.args)} })

RECURSIVE mbind_loop(_, _, _, _)
\* mbind(stream, goal): goal called on each context of stream in turn
mbind_loop(cs, exc, g, ys) ==
    IF cs = <<>> THEN Stream(ys, exc)
    ELSE one({ IF s.raised # "none" THEN Stream(ys \o s.yields, s.raised)
               ELSE mbind_loop(Tail(cs), exc, g, ys \o s.yields) :
                   s \in {Goal_call(g, Head(cs))} })

mbind(stream, g) == mbind_loop(stream.yields, stream.raised, g, <<>>)

\* a heuristic that leaves self.goals as given
ctx_heuristic_none(gs) == gs

\* And.ctx_heuristic_2: the sized goal first, then the others in the order
\* given
ctx_heuristic_2(gs) ==
    LET isSized(i) == sized(gs[i])
        unSized(i) == ~sized(gs[i])
        order == SelectSeq(ixs(Len(gs)), isSized)
                     \o SelectSeq(ixs(Len(gs)), unSized)
    IN  [i \in 1..Len(gs) |-> gs[order[i]]]

RECURSIVE constrain_all(_, _)
\* And.__call__: for constraint in self.constraints
constrain_all(ks, c) ==
    IF ks = <<>> THEN c
    ELSE constrain_all(Tail(ks), constrain(Head(ks), c))

RECURSIVE And_mbind_rest(_, _)
\* And.__call__ with a stream that starts from the context itself and binds
\* only the goals after the first
And_mbind_rest(gs, c) ==
    IF Len(gs) = 1 THEN Stream(<<c>>, "none")
    ELSE mbind(And_mbind_rest(SubSeq(gs, 1, Len(gs) - 1), c), gs[Len(gs)])

RECURSIVE And_mbind(_, _)
\* And.__call__: stream = goals[0](ctx), then mbind for each other goal
And_mbind(gs, c) ==
    IF Len(gs) = 1 THEN Goal_call(gs[1], c)
    ELSE mbind(And_mbind(SubSeq(gs, 1, Len(gs) - 1), c), gs[Len(gs)])

\* And.__call__: the sizes are taken before any goal is called, and an
\* exception raised by __ctx_len__ is raised by the call
And_goals_call(gs, ks, c) ==
    one({ IF \E i \in 1..Len(gs) :
                sized(gs[i]) /\ ctx_len(gs[i], c1).exc # "none"
          THEN Stream(<<>>, ctx_len(
                   gs[CHOOSE i \in 1..Len(gs) : sized(gs[i])], c1).exc)
          ELSE And_mbind(ctx_heuristic_2(gs), c1) :
              c1 \in {constrain_all(ks, c)} })

\* the tuples of goals given to And: at most one of them is sized
AndGoals ==
    {<<g>> : g \in AndSubGoals}
        \cup {gs \in {<<g, h>> : g \in AndSubGoals, h \in AndSubGoals} :
                 ~(sized(gs[1]) /\ sized(gs[2]))}

\* the tuples of constraints given to And
AndConstraints == {<<>>, <<Neq("x", "y")>>}

\* the contexts And is called on
AndCtxs ==
    UNION { {base}
              \cup {constrain(k, base) : k \in FactConstraints}
              \cup {o.ctx : o \in
                      {p \in UNION {unify(base, a, b) :
                                       a \in Vars, b \in FactVals} :
                          isOk(p)}} :
            base \in {NoCtx, install(NoCtx)} }

NoStream == [called |-> FALSE, res |-> Stream(<<>>, "none")]

InitAnd ==
    /\ ctx \in AndCtxs
    /\ last = NoCall
    /\ agoal \in [goals : AndGoals, constraints : AndConstraints]
    /\ ares = [conj |-> NoStream, goal |-> NoStream]
    /\ OrIdle
    /\ HooksIdle
    /\ FacetsIdle
    /\ PermIdle
    /\ InstallIdle
    /\ FactsGoalIdle
    /\ NotAndIdle

\* list(And(*goals, *constraints)(ctx))
AndCall ==
    /\ ~ares.conj.called
    /\ ares' = [ares EXCEPT !.conj =
                   [called |-> TRUE,
                    res |-> And_goals_call(agoal.goals, agoal.constraints,
                                           ctx)]]
    /\ UNCHANGED <<agoal, subVars, orVars, hookVars>>
    /\ UNCHANGED <<facetVars, permVars, installVars, factVars, notAnd>>

\* list(goals[0](ctx))
GoalCall ==
    /\ ~ares.goal.called
    /\ ares' = [ares EXCEPT !.goal =
                   [called |-> TRUE,
                    res |-> Goal_call(agoal.goals[1], ctx)]]
    /\ UNCHANGED <<agoal, subVars, orVars, hookVars>>
    /\ UNCHANGED <<facetVars, permVars, installVars, factVars, notAnd>>

NextAnd == AndCall \/ GoalCall

SpecAnd == InitAnd /\ [][NextAnd]_vars

\* C23: And(g)(c), a conjunction of exactly one sub-goal and no constraint,
\* yields the same contexts in the same order as g(c), and raises what g(c)
\* raises.
C23_AndOneGoal ==
    (/\ ares.conj.called
     /\ ares.goal.called
     /\ Len(agoal.goals) = 1
     /\ agoal.constraints = <<>>)
    => ares.conj.res = ares.goal.res

C23_Witness ==
    /\ ares.conj.called
    /\ ares.goal.called
    /\ agoal.goals = <<FactsG(<<"1", "2", "x">>)>>
    /\ agoal.constraints = <<>>
    /\ Len(ares.conj.res.yields) = 2
    /\ ares.conj.res.raised = "none"



-----------------------------------------------------------------------------
(* Specification SpecSolver: a Solver over the query variables (x, y) and  *)
(* a goal Or(Eq, ...) of one or two Eq goals, called through __iter__,     *)
(* __next__, latest_solution and instrument.  The context given to the     *)
(* constructor may hold a constraint, and its VarsReifiers facet may       *)
(* record a reifier for a query variable.  Ground values are the ints 65   *)
(* and 66 and the strings 'A' and 'B'.                                     *)

\* the ints among the ground values, and chr of each
ChrTable == [v \in {"65", "66"} |-> IF v = "65" THEN "A" ELSE "B"]

\* typ(val) for a reifier typ recorded in VarsReifiers: the value, or the
\* exception the conversion raises
reify(typ, val) ==
    CASE typ = "chr" ->
            IF val \in DOMAIN ChrTable
            THEN [exc |-> "none", val |-> ChrTable[val]]
            ELSE [exc |-> "TypeError", val |-> NoKey]
      [] typ = "int" ->
            IF val \in DOMAIN ChrTable
            THEN [exc |-> "none", val |-> val]
            ELSE [exc |-> "ValueError", val |-> NoKey]

RECURSIVE reify_loop(_, _, _, _)
\* Vars.walk_reify_vars: the loop over vars; a variable without an entry in
\* the facet has the default reifier None
reify_loop(reif, c, vs, ret) ==
    IF vs = <<>> THEN [exc |-> "none", sol |-> ret]
    ELSE LET val == walk(c, Head(vs))
         IN  IF Head(vs) \in DOMAIN reif /\ ~isVar(val)
             THEN one({ IF r.exc # "none" THEN [exc |-> r.exc, sol |-> <<>>]
                        ELSE reify_loop(reif, c, Tail(vs),
                                        Append(ret, r.val)) :
                            r \in {reify(reif[Head(vs)], val)} })
             ELSE reify_loop(reif, c, Tail(vs), Append(ret, val))

\* Solver.__solution__
solution(reif, c, vs) == reify_loop(reif, c, vs, <<>>)

\* the context subs_cb stores in solver.ctx while unify(c, a, b) runs: the
\* one Substitutions.sub has just set the binding in, if sub is called
substituted(c, a, b) ==
    LET x == walk(c, a)
        y == walk(c, b)
    IN  IF x = y \/ x = WILD \/ y = WILD THEN <<>>
        ELSE IF isVar(x) THEN <<[c EXCEPT !.subs[x] = y, !.failed = FALSE]>>
        ELSE IF isVar(y) THEN <<[c EXCEPT !.subs[y] = x, !.failed = FALSE]>>
        ELSE <<>>

RECURSIVE draw_round(_, _, _)
\* the first next of the stream of Or(*eqs)(base): zip_longest draws one
\* context from every Eq stream before any is yielded
draw_round(gs, base, sv) ==
    IF gs = <<>> THEN sv
    ELSE LET seen == substituted(base, Head(gs).a, Head(gs).b)
         IN  draw_round(Tail(gs), base,
                 [sv EXCEPT !.buf = @ \o Eq_call(Head(gs), base).yields,
                            !.ctx = IF seen = <<>> THEN @ ELSE seen[1]])

\* Solver.__iter__
Solver_iter(sv) ==
    [sv EXCEPT !.iter = "new", !.base = sv.ctx, !.buf = <<>>, !.taken = 0]

\* Solver.latest_solution without the finally clause
Solver_latest_solution_noreset(sv) ==
    IF sv.latest = <<>>
    THEN [solver |-> sv, res |-> [exc |-> "none", sol |-> "None"]]
    ELSE [solver |-> [sv EXCEPT !.ctx = sv.latest[1]],
          res |-> solution(sv.reif, sv.latest[1], sv.vars)]

\* Solver.latest_solution
Solver_latest_solution(sv) ==
    IF sv.latest = <<>>
    THEN [solver |-> sv, res |-> [exc |-> "none", sol |-> "None"]]
    ELSE LET curr_ctx == sv.ctx
             sv1 == [sv EXCEPT !.ctx = sv.latest[1]]
         IN  [solver |-> [sv1 EXCEPT !.ctx = curr_ctx],
              res |-> solution(sv1.reif, sv1.ctx, sv1.vars)]

\* Solver.__next__ that reifies the context the stream was called on
Solver_next_base(sv) ==
    one({ IF sv1.buf = <<>>
          THEN [solver |-> sv1,
                res |-> [exc |-> "StopIteration", sol |-> <<>>]]
          ELSE [solver |-> [sv1 EXCEPT !.ctx = Head(sv1.buf),
                                       !.latest = <<Head(sv1.buf)>>,
                                       !.buf = Tail(sv1.buf),
                                       !.taken = @ + 1],
                res |-> solution(sv1.reif, sv1.base, sv1.vars)] :
            sv1 \in {IF sv.iter = "new"
                     THEN draw_round(sv.goal.goals, sv.base,
                                     [sv EXCEPT !.iter = "run"])
                     ELSE sv} })

\* Solver.__next__
Solver_next(sv) ==
    one({ IF sv1.buf = <<>>
          THEN [solver |-> sv1,
                res |-> [exc |-> "StopIteration", sol |-> <<>>]]
          ELSE [solver |-> [sv1 EXCEPT !.ctx = Head(sv1.buf),
                                       !.latest = <<Head(sv1.buf)>>,
                                       !.buf = Tail(sv1.buf),
                                       !.taken = @ + 1],
                res |-> solution(sv1.reif, Head(sv1.buf), sv1.vars)] :
            sv1 \in {IF sv.iter = "new"
                     THEN draw_round(sv.goal.goals, sv.base,
                                     [sv EXCEPT !.iter = "run"])
                     ELSE sv} })

\* the Eq goals of the Or given to the Solver
SolverEqs ==
    { EqG("x", "65"), EqG("x", "A"), EqG("y", "66"), EqG("x", "y") }

SolverGoals ==
    {OrG(<<g>>) : g \in SolverEqs}
        \cup {OrG(<<g, h>>) : g \in SolverEqs, h \in SolverEqs}

\* the VarsReifiers facet of the context given to the constructor
SolverReifiers ==
    UNION { [D -> Reifiers] : D \in {{}, {"x"}, {"y"}} }

\* Solver(ctx, vars, goal)
Solver_init(c, reif, vs, g) ==
    [ctx |-> Solver_pre_init(c), reif |-> reif, vars |-> vs, goal |-> g,
     latest |-> <<>>, iter |-> "none", base |-> NoCtx, buf |-> <<>>,
     taken |-> 0]

InitSolver ==
    /\ \E c \in {NoCtx, constrain(Neq("x", "y"), NoCtx)},
          reif \in SolverReifiers, g \in SolverGoals :
        solver = Solver_init(c, reif, <<"x", "y">>, g)
    /\ scalls = <<>>
    /\ SubIdle
    /\ OrIdle
    /\ HooksIdle
    /\ FacetsIdle
    /\ PermIdle
    /\ InstallIdle
    /\ FactsGoalIdle
    /\ NotSolverIdle

\* the record of a call on the solver
solverCall(op, r) ==
    [op |-> op, pre |-> solver.ctx, base |-> r.solver.base,
     taken |-> r.solver.taken, res |-> r.res, post |-> r.solver.ctx]

solverStep(op, r) ==
    /\ Len(scalls) < MaxSolverCalls
    /\ solver' = r.solver
    /\ scalls' = Append(scalls, solverCall(op, r))
    /\ UNCHANGED <<subVars, orVars, hookVars>>
    /\ UNCHANGED <<facetVars, permVars, installVars, factVars, notSolver>>

\* iter(solver)
SolverIter ==
    /\ solver.iter = "none"
    /\ solverStep("iter", [solver |-> Solver_iter(solver),
                           res |-> [exc |-> "none", sol |-> <<>>]])

\* next(solver)
SolverNext ==
    /\ solver.iter # "none"
    /\ solverStep("next", Solver_next(solver))

\* solver.latest_solution()
SolverLatestSolution ==
    solverStep("latest_solution", Solver_latest_solution(solver))

\* solver.instrument(Notin(z, {65}).constrain)
SolverInstrument ==
    /\ Notin("z", <<>>, {"65"}) \notin solver.ctx.cons["z"]
    /\ solverStep("instrument",
          [solver |-> [solver EXCEPT !.ctx =
                          constrain(Notin("z", <<>>, {"65"}), @)],
           res |-> [exc |-> "none", sol |-> <<>>]])

NextSolver ==
    SolverIter \/ SolverNext \/ SolverLatestSolution \/ SolverInstrument

SpecSolver == InitSolver /\ [][NextSolver]_vars

\* the stream of the solver's goal called on context base
goalStream(base) == Goal_call(solver.goal, base).yields

\* reifier(walk(c, v)) for each query variable v that walks to a ground
\* value and has a reifier, the walked term otherwise
reified(c, k) ==
    LET v   == solver.vars[k]
        val == walk(c, v)
    IN  IF v \in DOMAIN solver.reif /\ ~isVar(val)
        THEN reify(solver.reif[v], val)
        ELSE [exc |-> "none", val |-> val]

\* C25: the j-th next after iter(solver) takes the j-th context of the
\* stream of goal(ctx) and nothing else, and returns the tuple of the
\* reified walked values of the query variables in that context (it raises
\* what a reifier raises); after the last context it raises StopIteration.
C25_NextInStreamOrder ==
    \A i \in 1..Len(scalls) :
        scalls[i].op = "next" =>
            LET cl == scalls[i]
                st == goalStream(cl.base)
                j  == Cardinality({h \in 1..i : scalls[h].op = "next"})
            IN  IF j > Len(st)
                THEN cl.res.exc = "StopIteration" /\ cl.taken = Len(st)
                ELSE /\ cl.taken = j
                     /\ cl.post = st[j]
                     /\ IF \A k \in 1..Len(solver.vars) :
                               reified(st[j], k).exc = "none"
                        THEN /\ cl.res.exc = "none"
                             /\ cl.res.sol = [k \in 1..Len(solver.vars) |->
                                                 reified(st[j], k).val]
                        ELSE cl.res.exc \in {"TypeError", "ValueError"}

C25_Witness ==
    /\ Len(scalls) = 3
    /\ scalls[2].op = "next" /\ scalls[3].op = "next"
    /\ solver.goal = OrG(<<EqG("x", "65"), EqG("x", "y")>>)
    /\ solver.reif = [v \in {"x"} |-> "chr"]
    /\ scalls[2].res = [exc |-> "none", sol |-> <<"A", "y">>]
    /\ scalls[3].res = [exc |-> "none", sol |-> <<"y", "y">>]

\* the calls before call i that took a context from the stream
yieldingNexts(i) ==
    {j \in 1..(i - 1) :
        scalls[j].op = "next" /\ scalls[j].res.exc # "StopIteration"}

\* C26: latest_solution returns the reification of the context yielded by
\* the most recent next that yielded one (None when there is none) and
\* leaves solver.ctx as it was before the call, also when the reification
\* raises.
C26_LatestSolution ==
    \A i \in 1..Len(scalls) :
        scalls[i].op = "latest_solution" =>
            /\ scalls[i].post = scalls[i].pre
            /\ IF yieldingNexts(i) = {}
               THEN scalls[i].res = [exc |-> "none", sol |-> "None"]
               ELSE LET j == CHOOSE j \in yieldingNexts(i) :
                                 \A h \in yieldingNexts(i) : h <= j
                    IN  scalls[i].res =
                            solution(solver.reif, scalls[j].post, solver.vars)

C26_Witness ==
    /\ Len(scalls) = 4
    /\ scalls[2].op = "next"
    /\ scalls[3].op = "instrument"
    /\ scalls[4].op = "latest_solution"
    /\ scalls[4].res.exc = "TypeError"
    /\ scalls[4].pre # scalls[2].post
    /\ scalls[4].post = scalls[4].pre


-----------------------------------------------------------------------------
(* Specification SpecIterables: Unification.unify of two sequences on a    *)
(* context with UnificationIterables.unify_hook hooked on hook_unify.  The *)
(* elements are ints, a variable and the Ellipsis; such a context is never *)
(* empty, so `not ctx` holds of Unification.Failed only.                   *)

\* the Ellipsis object
ELLIPSIS == "..."

\* the elements of the sequences
Atoms == {"1", "2", "x", ELLIPSIS}

Seqs == UNION {[1..n -> Atoms] : n \in 0..MaxSeqLen}

NotImplementedError ==
    [exc |-> TRUE, ctx |-> NoCtx, kind |-> "NotImplementedError"]

\* Unification.unify of two elements: two different ints reach the
\* hook_unify pipeline, where unify_hook does not handle them (iter raises
\* TypeError), and unify returns Failed
unify_atoms(c, a, b) ==
    LET x == walk(c, a)
        y == walk(c, b)
    IN  IF x = y \/ x = WILD \/ y = WILD THEN Ret(c)
        ELSE IF isVar(x) THEN one(sub(c, x, y))
        ELSE IF isVar(y) THEN one(sub(c, y, x))
        ELSE Ret(Failed)

RECURSIVE unify_hook_strict(_, _, _, _)
\* UnificationIterables.unify_hook without the Ellipsis cases
unify_hook_strict(c, x, y, i) ==
    IF i > Len(x) /\ i > Len(y) THEN Ret(c)
    ELSE IF i > Len(x) \/ i > Len(y) THEN Ret(Failed)
    ELSE one({ IF o.ctx.failed THEN Ret(Failed)
               ELSE unify_hook_strict(o.ctx, x, y, i + 1) :
                   o \in {unify_atoms(c, x[i], y[i])} })

RECURSIVE unify_hook(_, _, _, _)
\* UnificationIterables.unify_hook: the while loop, at element i of both
unify_hook(c, x, y, i) ==
    IF i > Len(x) /\ i > Len(y) THEN Ret(c)
    ELSE IF i > Len(x) \/ i > Len(y) THEN Ret(Failed)
    ELSE IF walk(c, x[i]) = ELLIPSIS
    THEN IF i + 1 > Len(x) THEN Ret(c) ELSE NotImplementedError
    ELSE IF walk(c, y[i]) = ELLIPSIS
    THEN IF i + 1 > Len(y) THEN Ret(c) ELSE NotImplementedError
    ELSE one({ IF o.ctx.failed THEN Ret(Failed)
               ELSE unify_hook(o.ctx, x, y, i + 1) :
                   o \in {unify_atoms(c, x[i], y[i])} })

\* Unification.unify(ctx, x, y) for two sequences
unify_seqs(c, x, y) == IF x = y THEN Ret(c) ELSE unify_hook(c, x, y, 1)

\* the contexts unify is called on
IterCtxs == {NoCtx, one(sub(NoCtx, "x", "1")).ctx}

InitIterables ==
    /\ ctx \in IterCtxs
    /\ last = NoCall
    /\ OrIdle
    /\ HooksIdle
    /\ ExtIdle

\* ctx = Unification.unify(ctx, x, y)
UnifySeqs ==
    /\ last.n = 0
    /\ \E x \in Seqs, y \in Seqs :
        LET o == unify_seqs(ctx, x, y)
        IN  /\ ctx' = threaded(ctx, o)
            /\ last' = call("unify_seqs", x, y, o)
    /\ UNCHANGED <<orVars, hookVars, extVars>>

NextIterables == UnifySeqs

SpecIterables == InitIterables /\ [][NextIterables]_vars

\* a sequence without Ellipsis
plain(s) == \A i \in 1..Len(s) : s[i] # ELLIPSIS

\* a sequence that ends in an Ellipsis and has no other
trailing(s) ==
    /\ Len(s) > 0
    /\ s[Len(s)] = ELLIPSIS
    /\ plain(SubSeq(s, 1, Len(s) - 1))

RECURSIVE elementwise(_, _, _, _)
\* the first n elements of p and q unified in turn, from element i on
elementwise(c, p, q, i) ==
    IF i > Len(p) THEN Ret(c)
    ELSE LET o == unify_atoms(c, p[i], q[i])
         IN  IF o.ctx.failed THEN o ELSE elementwise(o.ctx, p, q, i + 1)

\* the elements before the trailing Ellipsis of s unify with the prefix of
\* the same length of t
prefixUnifies(c, s, t) ==
    /\ trailing(s)
    /\ Len(t) >= Len(s) - 1
    /\ plain(SubSeq(t, 1, Len(s) - 1))
    /\ isOk(elementwise(c, SubSeq(s, 1, Len(s) - 1),
                        SubSeq(t, 1, Len(s) - 1), 1))

\* equal length and element-wise unifiable
equalUnifies(c, s, t) ==
    /\ plain(s) /\ plain(t)
    /\ Len(s) = Len(t)
    /\ isOk(elementwise(c, s, t, 1))

\* C27: unify of two sequences, each without Ellipsis or with one trailing
\* Ellipsis, succeeds iff they have equal length and unify element-wise,
\* or one ends in a trailing Ellipsis and the elements before it unify with
\* the other's prefix; otherwise it returns Failed.
C27_SeqUnify ==
    (/\ last.op = "unify_seqs"
     /\ plain(last.a) \/ trailing(last.a)
     /\ plain(last.b) \/ trailing(last.b))
    => IF \/ equalUnifies(last.pre, last.a, last.b)
          \/ prefixUnifies(last.pre, last.a, last.b)
          \/ prefixUnifies(last.pre, last.b, last.a)
       THEN isOk(last.res)
       ELSE last.res = Ret(Failed)


-----------------------------------------------------------------------------
(* Specification SpecSet: immutables.Set, a frozenset over an              *)
(* immutables.Map whose keys are the members.                              *)

\* the values put in the Set
SetElems == 0..MaxVal

SetKeyError == [exc |-> TRUE, kind |-> "KeyError"]

\* immutables.Map.set(key, None) on the keys
impl_set(impl, key) == [exc |-> FALSE, impl |-> impl \cup {key}]

\* immutables.Map.delete(key) on the keys: a missing key raises KeyError
impl_delete(impl, key) ==
    IF key \in impl THEN [exc |-> FALSE, impl |-> impl \ {key}]
    ELSE SetKeyError

\* Set.add(value)
Set_add(s, value) == impl_set(s, value)

\* Set.discard(value)
Set_discard(s, value) == impl_delete(s, value)

NoSetOp == [n |-> 0, op |-> "none", value |-> 0, pre |-> {}, res |-> SetKeyError]

InitSet ==
    /\ pset = {}
    /\ setop = NoSetOp
    /\ ctx = NoCtx
    /\ last = NoCall
    /\ OrIdle
    /\ HooksIdle
    /\ FacetsIdle /\ PermIdle /\ InstallIdle /\ FactsGoalIdle
    /\ NotSetIdle

setStep(op, value, o) ==
    /\ setop.n < MaxSetOps
    /\ pset' = IF o.exc THEN pset ELSE o.impl
    /\ setop' = [n |-> setop.n + 1, op |-> op, value |-> value,
                  pre |-> pset, res |-> o]
    /\ UNCHANGED <<subVars, orVars, hookVars, facetVars, permVars,
                   installVars, factVars, reifVars, tableVars, andVars,
                   solverVars, lateVars>>

\* s = s.add(value)
SetAdd == \E value \in SetElems : setStep("add", value, Set_add(pset, value))

\* s = s.discard(value)
SetDiscard ==
    \E value \in SetElems :
        setStep("discard", value, Set_discard(pset, value))

NextSet == SetAdd \/ SetDiscard

SpecSet == InitSet /\ [][NextSet]_vars

\* C28: Set.discard of a value that is not a member returns a set equal to
\* the original without raising.
C28_DiscardMissing ==
    (setop.op = "discard" /\ setop.value \notin setop.pre)
    => (~setop.res.exc /\ setop.res.impl = setop.pre)


-----------------------------------------------------------------------------
(* Specification SpecPipeline: the hook_substitution pipeline of one       *)
(* threaded context, with the callbacks each Substitutions.sub invokes and *)
(* the context each is invoked on.                                         *)

\* HooksABC.hook on Substitutions.hook_substitution: the new callback is
\* the head of the cons list
hook_substitution(c, cb) ==
    [c EXCEPT !.pipe = <<cb>> \o @, !.failed = FALSE]

RECURSIVE run_all_traced(_, _, _, _, _)
\* HooksPipelines.run_all with the invocations made so far in tr
run_all_traced(cbs, o, tr, var, val) ==
    IF cbs = <<>> \/ o.exc THEN {[res |-> o, trace |-> tr]}
    ELSE UNION { run_all_traced(Tail(cbs), o1,
                     Append(tr, [cb |-> Head(cbs), on |-> o.ctx]), var, val) :
                    o1 \in callback(Head(cbs), o.ctx, var, val) }

\* Substitutions.sub with the invocations of its pipeline run
sub_traced(c, var, val) ==
    LET c1 == [c EXCEPT !.subs[var] = val, !.failed = FALSE]
    IN  run_all_traced(c1.pipe, Ret(c1), <<>>, var, val)

pipeCall(op, a, b, o, tr) ==
    [n |-> last.n + 1, op |-> op, a |-> a, b |-> b, pre |-> ctx, res |-> o,
     trace |-> tr]

NoPipeCall ==
    [n |-> 0, op |-> "none", a |-> NoKey, b |-> NoKey, pre |-> NoCtx,
     res |-> Ret(NoCtx), trace |-> <<>>]

hooked(c, cb) == \E i \in DOMAIN c.pipe : c.pipe[i] = cb

InitPipeline ==
    /\ ctx = NoCtx
    /\ last = NoPipeCall
    /\ OrIdle
    /\ HooksIdle
    /\ ExtIdle

\* ctx = Substitutions.hook_substitution(ctx, unification_cb)
PipeHook ==
    /\ last.n < MaxOps
    /\ ~hooked(ctx, "unification_cb")
    /\ ctx' = hook_substitution(ctx, "unification_cb")
    /\ last' = pipeCall("hook", NoKey, NoKey,
                        Ret(hook_substitution(ctx, "unification_cb")), <<>>)
    /\ UNCHANGED <<orVars, hookVars, extVars>>

\* ctx = Constraints.install(ctx)
PipeInstall ==
    /\ last.n < MaxOps
    /\ ~hooked(ctx, "substitution_cb")
    /\ ctx' = install(ctx)
    /\ last' = pipeCall("install", NoKey, NoKey, Ret(install(ctx)), <<>>)
    /\ UNCHANGED <<orVars, hookVars, extVars>>

\* ctx = Neq(x, y).constrain(ctx)
PipeConstrain ==
    /\ last.n < MaxOps
    /\ Neq("x", "y") \notin ctx.cons["x"]
    /\ ctx' = constrain(Neq("x", "y"), ctx)
    /\ last' = pipeCall("constrain", "Neq", NoKey,
                        Ret(constrain(Neq("x", "y"), ctx)), <<>>)
    /\ UNCHANGED <<orVars, hookVars, extVars>>

\* ctx = Substitutions.sub(ctx, var, val), kept when it is not Failed
PipeSub ==
    /\ last.n < MaxOps
    /\ \E var \in Vars, val \in Vars \cup Vals :
       \E r \in sub_traced(ctx, var, val) :
        /\ ctx' = threaded(ctx, r.res)
        /\ last' = pipeCall("sub", var, val, r.res, r.trace)
        /\ UNCHANGED <<orVars, hookVars, extVars>>

NextPipeline == PipeHook \/ PipeInstall \/ PipeConstrain \/ PipeSub

SpecPipeline == InitPipeline /\ [][NextPipeline]_vars

\* C29: when a constraint on the substituted variable returns Failed, no
\* callback later in that pipeline run is invoked: no callback of a
\* substitution pipeline runs on the Failed context.
C29_FailedShortCircuits ==
    last.op = "sub" =>
        \A i \in DOMAIN last.trace : ~last.trace[i].on.failed

-----------------------------------------------------------------------------
(* The wildcard under specification Spec *)

\* C24: unify of the wildcard with any term, on any context, returns a
\* context (it does not fail or raise) whose substitution map is the one of
\* the context passed in.
C24_WildcardUnifies ==
    (last.op = "unify" /\ (last.a = WILD \/ last.b = WILD))
    => (isOk(last.res) /\ last.res.ctx.subs = last.pre.subs)

-----------------------------------------------------------------------------
(* Propagation of constraints under specification Spec *)

-----------------------------------------------------------------------------
(* The order of the sub-goals under specification SpecAnd *)

\* the goals of gs that are sized (b = TRUE) or not (b = FALSE), in the
\* order given
RECURSIVE pick(_, _)
pick(gs, b) ==
    IF gs = <<>> THEN <<>>
    ELSE (IF sized(Head(gs)) = b THEN <<Head(gs)>> ELSE <<>>)
             \o pick(Tail(gs), b)

RECURSIVE flatmapped(_, _)
\* g1 applied to c, then each following goal flat-mapped over the stream
flatmapped(gs, c) ==
    IF Len(gs) = 1 THEN Goal_call(gs[1], c)
    ELSE mbind(flatmapped(SubSeq(gs, 1, Len(gs) - 1), c), gs[Len(gs)])

\* the context with the constraints of the And installed
andCtx == constrain_all(agoal.constraints, ctx)

-----------------------------------------------------------------------------
(* The terminal of a walk under specification Spec *)

\* C32: in every context, a walk that returns, returns a terminal that is
\* either a non-variable or a variable that is not a key of the substitution
\* map, and walking the result again in the same context returns it
\* unchanged.
C32_WalkTerminal ==
    \A v \in Terms :
        walk(ctx, v) # RecursionError =>
            /\ ~(walk(ctx, v) \in Vars /\ ctx.subs[walk(ctx, v)] # NoKey)
            /\ walk(ctx, walk(ctx, v)) = walk(ctx, v)

\* a context in which a variable walks over two hops to a value
C32_Witness ==
    \E v \in Vars :
        /\ ctx.subs[v] \in Vars
        /\ ctx.subs[v] # v
        /\ ctx.subs[ctx.subs[v]] # NoKey
        /\ walk(ctx, v) \in Vals

-----------------------------------------------------------------------------
(* Specification SpecWalk: Substitutions.walk on a context with callbacks  *)
(* hooked on hook_walk_condensible.  Constraints.install leaves            *)
(* walk_condense_cb unhooked, so the hook_walk_condense pipeline that      *)
(* _walk_condense runs has no callback.                                    *)

\* the callbacks hooked on hook_walk_condensible: the walk_condensible_cb of
\* install_metrics, which returns ctx and data as given, and the callback of
\* the docstring of hook_walk_condensible, which calls _walk_condense
CondensibleCBs == {"walk_condensible_cb", "condense_cb"}

\* the values substituted for variables
WalkVals == Vars \cup {"1"}

isKey(subs, t) == t \in Vars /\ subs[t] # NoKey

RECURSIVE walk_rec(_, _, _)
\* Substitutions.walk(ctx, var, _track): the value returned and the set
\* track; deep tells that the call recursed
walk_rec(subs, var, track) ==
    IF ~isKey(subs, var) THEN [val |-> var, track |-> track, deep |-> FALSE]
    ELSE IF ~isKey(subs, subs[var])
    THEN [val |-> subs[var], track |-> track, deep |-> FALSE]
    ELSE IF subs[var] \in track \cup {var}
    THEN [val |-> RecursionError, track |-> track, deep |-> TRUE]
    ELSE one({ [r EXCEPT !.deep = TRUE] :
                 r \in {walk_rec(subs, subs[var],
                                 track \cup {var, subs[var]})} })

\* the test without `the recursive call was made`
condensible_any(r) == r.val \notin r.track

\* `not _track and sub not in track`, reached after the recursive call
condensible(r) == r.deep /\ r.val \notin r.track

\* a condensation that rebinds every bound variable of the context
walk_condense_all(c, val, tracked) ==
    [c EXCEPT !.subs = [v \in Vars |-> IF @[v] # NoKey THEN val ELSE @[v]]]

\* Substitutions._walk_condense
walk_condense(c, val, tracked) ==
    [c EXCEPT !.subs = [v \in Vars |-> IF v \in tracked THEN val ELSE @[v]]]

\* one callback of hook_walk_condensible called on (var, val, tracked)
condensible_cb(name, c, data) ==
    CASE name = "walk_condensible_cb" -> c
      [] name = "condense_cb" -> walk_condense(c, data.val, data.track)

RECURSIVE condensible_run(_, _, _)
\* HooksPipelines.run on hook_walk_condensible
condensible_run(cbs, c, data) ==
    IF cbs = <<>> THEN c
    ELSE condensible_run(Tail(cbs), condensible_cb(Head(cbs), c, data), data)

\* a top-level Substitutions.walk(ctx, var): what it returns or raises and
\* the runs of the hook_walk_condensible pipeline it made
walk_hooked(c, cbs, var) ==
    one({ IF r.val = RecursionError
          THEN [exc |-> TRUE, ctx |-> c, val |-> r.val, fired |-> <<>>]
          ELSE IF condensible(r)
          THEN [exc |-> FALSE,
                ctx |-> condensible_run(cbs, c,
                            [var |-> var, val |-> r.val, track |-> r.track]),
                val |-> r.val,
                fired |-> <<[var |-> var, val |-> r.val,
                             track |-> r.track]>>]
          ELSE [exc |-> FALSE, ctx |-> c, val |-> r.val, fired |-> <<>>] :
              r \in {walk_rec(c.subs, var, {})} })

NoWalk ==
    [op |-> "none", a |-> NoKey, b |-> NoKey, pre |-> NoCtx,
     res |-> [exc |-> FALSE, ctx |-> NoCtx, val |-> NoKey, fired |-> <<>>]]

InitWalk ==
    /\ ctx = NoCtx
    /\ last = NoWalk
    /\ whooks = <<>>
    /\ OrIdle
    /\ HooksIdle
    /\ FacetsIdle /\ PermIdle /\ InstallIdle /\ FactsGoalIdle
    /\ ReifIdle /\ TableIdle /\ AndIdle /\ SolverIdle /\ SetIdle
    /\ NotinObjIdle /\ AgainIdle /\ CelIdle

\* ctx = Substitutions.hook_walk_condensible(ctx, cb)
WalkHook ==
    /\ \E cb \in CondensibleCBs :
        /\ \A i \in DOMAIN whooks : whooks[i] # cb
        /\ whooks' = <<cb>> \o whooks
        /\ last' = [NoWalk EXCEPT !.op = "hook", !.a = cb, !.pre = ctx]
    /\ UNCHANGED <<ctx, orVars, hookVars, facetVars, permVars, installVars,
                   factVars, reifVars, tableVars, andVars, solverVars,
                   setVars, nheap, nlast, aagain, cel>>

\* ctx = Substitutions.sub(ctx, var, val)
WalkSub ==
    /\ \E var \in Vars, val \in WalkVals :
        /\ ctx' = [ctx EXCEPT !.subs[var] = val]
        /\ last' = [NoWalk EXCEPT !.op = "sub", !.a = var, !.b = val,
                                  !.pre = ctx]
    /\ UNCHANGED <<whooks, orVars, hookVars, facetVars, permVars,
                   installVars, factVars, reifVars, tableVars, andVars,
                   solverVars, setVars, nheap, nlast, aagain, cel>>

\* ctx, val = Substitutions.walk(ctx, var)
WalkCall ==
    /\ \E var \in Vars :
        LET r == walk_hooked(ctx, whooks, var)
        IN  /\ ctx' = r.ctx
            /\ last' = [NoWalk EXCEPT !.op = "walk", !.a = var, !.pre = ctx,
                                      !.res = r]
    /\ UNCHANGED <<whooks, orVars, hookVars, facetVars, permVars,
                   installVars, factVars, reifVars, tableVars, andVars,
                   solverVars, setVars, nheap, nlast, aagain, cel>>

NextWalk == WalkHook \/ WalkSub \/ WalkCall

SpecWalk == InitWalk /\ [][NextWalk]_vars

RECURSIVE walkChain(_, _, _)
\* the bound variables on the way from t, over at most n hops
walkChain(subs, t, n) ==
    IF n = 0 \/ ~isKey(subs, t) THEN <<>>
    ELSE <<t>> \o walkChain(subs, subs[t], n - 1)

\* the hops a walk of var traverses in a context where it returns
hops(subs, var) == Len(walkChain(subs, var, Cardinality(Vars)))

visited(subs, var) ==
    {walkChain(subs, var, Cardinality(Vars))[i] : i \in 1..hops(subs, var)}

\* C33: a top-level walk that returns fires the condensible pipeline hook
\* exactly once, with (origin, terminal value, visited set), if the walk
\* traversed more than one hop, and does not fire it otherwise.
C33_CondensibleOnce ==
    (last.op = "walk" /\ ~last.res.exc) =>
        IF hops(last.pre.subs, last.a) > 1
        THEN last.res.fired
                 = <<[var |-> last.a, val |-> walk(last.pre, last.a),
                      track |-> visited(last.pre.subs, last.a)]>>
        ELSE last.res.fired = <<>>

\* a walk over three hops that fired the hook, and a walk over one hop made
\* before a callback was hooked
C33_Witness ==
    /\ last.op = "walk"
    /\ ~last.res.exc
    /\ hops(last.pre.subs, last.a) = 3
    /\ Len(last.res.fired) = 1
    /\ whooks # <<>>

\* C34: after the condensation of a walk that visited v1..vk and ended at
\* terminal t, every visited variable maps directly to t, and every variable
\* of the context walks to the same value as before the condensation.
C34_Condensed ==
    (/\ last.op = "walk"
     /\ last.res.fired # <<>>
     /\ \E i \in DOMAIN whooks : whooks[i] = "condense_cb")
    => /\ \A v \in last.res.fired[1].track :
              last.res.ctx.subs[v] = last.res.val
       /\ \A v \in Vars : walk(last.res.ctx, v) = walk(last.pre, v)

\* a condensation that changed the map under a variable other than the
\* visited ones walking to a different value
C34_Witness ==
    /\ last.op = "walk"
    /\ last.res.fired # <<>>
    /\ \E i \in DOMAIN whooks : whooks[i] = "condense_cb"
    /\ last.res.ctx # last.pre
    /\ \E v \in Vars \ last.res.fired[1].track :
          /\ isKey(last.pre.subs, v)
          /\ walk(last.pre, v) # last.res.val

-----------------------------------------------------------------------------
(* Specification SpecNotinObj: Notin.expand and Notin.contract, with the   *)
(* Notin objects kept in a heap so that `the same object` can be told from *)
(* `an equal object`.                                                      *)

\* the collections given to expand and contract
NotinColls == UNION {[1..n -> {"y", "1", "2"}] : n \in 0..2}

inSeq(x, sq) == \E i \in DOMAIN sq : sq[i] = x

literals(coll) == {coll[i] : i \in {j \in DOMAIN coll : ~isVar(coll[j])}}

\* the result of a method that returns a Notin: the heap and the object
NotinRet(h, id) == [heap |-> h, id |-> id]

\* Notin.expand(collection) called on the object with this id
Notin_expand(h, id, coll) ==
    LET self   == h[id]
        cvars  == Tail(self.vars)
        isNew(v) == isVar(v) /\ ~inSeq(v, cvars)
        new    == Notin(self.vars[1], cvars \o SelectSeq(coll, isNew),
                        self.cvals \cup literals(coll))
    IN  IF Tail(new.vars) = cvars /\ new.cvals = self.cvals
        THEN NotinRet(h, id)
        ELSE NotinRet(Append(h, new), Len(h) + 1)

\* Notin.contract(collection) called on the object with this id
Notin_contract(h, id, coll) ==
    LET self   == h[id]
        cvars  == Tail(self.vars)
        kept(v) == ~inSeq(v, coll)
        new    == Notin(self.vars[1], SelectSeq(cvars, kept),
                        self.cvals \ literals(coll))
    IN  NotinRet(Append(h, new), Len(h) + 1)

InitNotinObj ==
    /\ nheap \in {<<Notin("x", cvars, cvals)>> :
                     cvars \in {<<>>, <<"y">>}, cvals \in SUBSET {"1", "2"}}
    /\ nlast = [op |-> "none", self |-> 0, coll |-> <<>>, res |-> 0]
    /\ ctx = NoCtx
    /\ last = NoCall
    /\ OrIdle
    /\ HooksIdle
    /\ FacetsIdle /\ PermIdle /\ InstallIdle /\ FactsGoalIdle
    /\ ReifIdle /\ TableIdle /\ AndIdle /\ SolverIdle /\ SetIdle
    /\ WalkIdle /\ AgainIdle /\ CelIdle

notinStep(op, id, coll, r) ==
    /\ nheap' = r.heap
    /\ nlast' = [op |-> op, self |-> id, coll |-> coll, res |-> r.id]
    /\ UNCHANGED <<subVars, orVars, hookVars, facetVars, permVars,
                   installVars, factVars, reifVars, tableVars, andVars,
                   solverVars, setVars, whooks, aagain, cel>>

\* notin.expand(collection)
NotinExpand ==
    /\ Len(nheap) < MaxNotins
    /\ \E id \in DOMAIN nheap, coll \in NotinColls :
        notinStep("expand", id, coll, Notin_expand(nheap, id, coll))

\* notin.contract(collection)
NotinContract ==
    /\ Len(nheap) < MaxNotins
    /\ \E id \in DOMAIN nheap, coll \in NotinColls :
        notinStep("contract", id, coll, Notin_contract(nheap, id, coll))

NextNotinObj == NotinExpand \/ NotinContract

SpecNotinObj == InitNotinObj /\ [][NextNotinObj]_vars

\* the values and variables a Notin forbids
forbidden(k) == k.cvals \cup {k.vars[i] : i \in 2..Len(k.vars)}

\* C35: Notin.expand and Notin.contract return the very same Notin object
\* whenever the requested change does not alter the forbidden set.
C35_SameObject ==
    (/\ nlast.op \in {"expand", "contract"}
     /\ forbidden(nheap[nlast.res]) = forbidden(nheap[nlast.self]))
    => nlast.res = nlast.self

-----------------------------------------------------------------------------
(* The contextual size under specification SpecFactsGoal *)

\* goal.__ctx_len__(c) for the goal and the context of the call
sizeInCtx == ctx_len(FactsG(fcall.args), fcall.pre)

\* the rows that survive FactsGoal._filtered in the context of the call
survivors ==
    IF short_circuit_fail(fcall.args)
           \/ filtered(fcall.pre, fcall.args).status # "ok"
    THEN {}
    ELSE filtered(fcall.pre, fcall.args).mask

\* C36: when the contextual size of a FactsGoal in context c is computed, it
\* equals the number of rows surviving the contextual filter in c and is an
\* upper bound on the number of contexts the goal yields from c.
C36_CtxLenBounds ==
    (fcall.called /\ sizeInCtx.exc = "none") =>
        /\ sizeInCtx.n = Cardinality(survivors)
        /\ Len(fcall.res.yields) <= sizeInCtx.n

\* a call on a context with a substitution where the filter kept two of the
\* three rows and the goal yielded for both
C36_Witness ==
    /\ fcall.called
    /\ sizeInCtx.exc = "none"
    /\ \E v \in Vars : fcall.pre.subs[v] # NoKey
    /\ sizeInCtx.n = 2
    /\ Len(fcall.res.yields) = 2

-----------------------------------------------------------------------------
(* Specification SpecAndTwice: one And object called twice on the same     *)
(* context.  And.ctx_heuristic_2 assigns self.goals, so agoal.goals is the *)
(* attribute as the last call left it.  Several goals of the And may be    *)
(* sized; no variable is shared between two sized goals, so the matrix of  *)
(* get_ctx_sized_comb_mtx_and_ord holds the contextual size of goal j at   *)
(* [i][j], no Notin is added and no goal is given an order direction.      *)

\* the goals given to And
TwiceSubGoals ==
    { FactsG(<<"1", "2", "x">>), FactsG(<<"1", "2", "y">>),
      FactsG(<<"5", "6", "z">>), EqG("z", "1"), EqG("x", "3") }

goalVars(g) ==
    IF g.kind = "Facts" THEN {g.args[i] : i \in DOMAIN g.args} \cap Vars
    ELSE {g.a, g.b} \cap Vars

TwiceGoals ==
    {gs \in {<<g, h>> : g \in TwiceSubGoals, h \in TwiceSubGoals} :
        (sized(gs[1]) /\ sized(gs[2]))
            => goalVars(gs[1]) \cap goalVars(gs[2]) = {}}

RECURSIVE insert_reverse(_, _, _)
\* one step of list.sort(key=..., reverse=True): i goes behind the entries
\* whose key is not smaller, so equal keys keep their order
insert_reverse(sorted, i, key) ==
    IF sorted = <<>> THEN <<i>>
    ELSE IF key[Head(sorted)] >= key[i]
    THEN <<Head(sorted)>> \o insert_reverse(Tail(sorted), i, key)
    ELSE <<i>> \o sorted

RECURSIVE sort_reverse(_, _)
\* list.sort(key=..., reverse=True) over goal indexes
sort_reverse(is, key) ==
    IF is = <<>> THEN <<>>
    ELSE insert_reverse(sort_reverse(SubSeq(is, 1, Len(is) - 1), key),
                        is[Len(is)], key)

RECURSIVE to_and_loop(_, _, _)
\* And.ctx_heuristic_2: `while to_sort`, popping the last entry and sorting
\* the rest by mtx[i][j], the size of goal j
to_and_loop(to_sort, to_and, size) ==
    IF to_sort = <<>> THEN to_and
    ELSE to_and_loop(
             sort_reverse(SubSeq(to_sort, 1, Len(to_sort) - 1), size),
             Append(to_and, to_sort[Len(to_sort)]), size)

\* And.ctx_heuristic_2: the value assigned to self.goals
heuristic_2(gs, size) ==
    LET isSized(i) == sized(gs[i])
        unSized(i) == ~sized(gs[i])
        to_sort == SelectSeq(ixs(Len(gs)), isSized)
        order == to_and_loop(sort_reverse(to_sort, size), <<>>, size)
                     \o SelectSeq(ixs(Len(gs)), unSized)
    IN  IF to_sort = <<>> THEN gs
        ELSE [i \in 1..Len(gs) |-> gs[order[i]]]

\* And.__call__ on the object whose self.goals is gs: the stream and the
\* self.goals it leaves
And_call_object(gs, ks, c) ==
    one({ IF \E i \in 1..Len(gs) :
                sized(gs[i]) /\ ctx_len(gs[i], c1).exc # "none"
          THEN [res |-> Stream(<<>>, ctx_len(
                   gs[CHOOSE i \in 1..Len(gs) :
                        sized(gs[i]) /\ ctx_len(gs[i], c1).exc # "none"],
                   c1).exc),
                goals |-> gs]
          ELSE one({ [res |-> And_mbind(to_and, c1), goals |-> to_and] :
                     to_and \in {heuristic_2(gs,
                         [i \in 1..Len(gs) |->
                             IF sized(gs[i]) THEN ctx_len(gs[i], c1).n
                             ELSE 0])} }) :
              c1 \in {constrain_all(ks, c)} })

InitAndTwice ==
    /\ ctx \in AndCtxs
    /\ last = NoCall
    /\ agoal \in [goals : TwiceGoals, constraints : AndConstraints]
    /\ ares = [conj |-> NoStream, goal |-> NoStream]
    /\ aagain = NoStream
    /\ OrIdle
    /\ HooksIdle
    /\ FacetsIdle /\ PermIdle /\ InstallIdle /\ FactsGoalIdle
    /\ ReifIdle /\ TableIdle /\ SolverIdle /\ SetIdle
    /\ WalkIdle /\ NotinObjIdle /\ CelIdle

\* first = list(goal(ctx))
AndFirst ==
    /\ ~ares.conj.called
    /\ \E r \in {And_call_object(agoal.goals, agoal.constraints, ctx)} :
           /\ ares' = [ares EXCEPT
                        !.conj = [called |-> TRUE, res |-> r.res]]
           /\ agoal' = [agoal EXCEPT !.goals = r.goals]
    /\ UNCHANGED <<aagain, subVars, orVars, hookVars, facetVars, permVars,
                   installVars, factVars, reifVars, tableVars, solverVars,
                   setVars, whooks, nheap, nlast, cel>>

\* second = list(goal(ctx))
AndSecond ==
    /\ ares.conj.called
    /\ ~aagain.called
    /\ \E r \in {And_call_object(agoal.goals, agoal.constraints, ctx)} :
           /\ aagain' = [called |-> TRUE, res |-> r.res]
           /\ agoal' = [agoal EXCEPT !.goals = r.goals]
    /\ UNCHANGED <<ares, subVars, orVars, hookVars, facetVars, permVars,
                   installVars, factVars, reifVars, tableVars, solverVars,
                   setVars, whooks, nheap, nlast, cel>>

NextAndTwice == AndFirst \/ AndSecond

SpecAndTwice == InitAndTwice /\ [][NextAndTwice]_vars

\* C37: applying the same And goal object twice to the same context yields
\* the same sequence of contexts both times.
C37_SameTwice ==
    aagain.called => aagain.res = ares.conj.res

-----------------------------------------------------------------------------
(* Specification SpecSolverAgain: a Solver iterated, advanced, and         *)
(* iterated again.  Solver.__iter__ calls the goal on self.ctx, which      *)
(* __next__ and subs_cb have re-pointed since the first iter().            *)

\* iter(solver) on a solver that has produced a solution
SolverIterAgain ==
    /\ solver.iter # "none"
    /\ solver.taken >= 1
    /\ solverStep("iter", [solver |-> Solver_iter(solver),
                           res |-> [exc |-> "none", sol |-> <<>>]])

NextSolverAgain == SolverIter \/ SolverNext \/ SolverIterAgain

SpecSolverAgain == InitSolver /\ [][NextSolverAgain]_vars

\* the solutions the solver enumerates when its goal is called on base
solutions(base) ==
    { solution(solver.reif, goalStream(base)[i], solver.vars) :
        i \in DOMAIN goalStream(base) }

\* C38: iter() on a solver that has produced a solution enumerates the same
\* set of solutions as the first iteration.
C38_RestartSame ==
    \A k \in 2..Len(scalls) :
        scalls[k].op = "iter" =>
            solutions(scalls[k].base) = solutions(scalls[1].base)

-----------------------------------------------------------------------------
(* Specification SpecCel: cons_last(cell), one step per statement.  A cons *)
(* list (i1, (i2, ... (in, ()))) is the sequence <<i1, ..., in>>: its car  *)
(* is the head, its cdr the tail, and () is <<>>.  cel holds the locals of *)
(* the call: cell, cell_, car, the position pc and the value returned.     *)

\* the longest cons list cons_last is called on
MaxCelLen == 3

CelItems == 0..MaxVal

\* the non-empty cons lists (type Nnl)
Nnls ==
    UNION { [1..n -> CelItems] : n \in 1..MaxCelLen }

\* a local that is not bound yet; a bound one is <<value>>
Unbound == <<>>

InitCel ==
    /\ \E cell \in Nnls :
        cel = [cell |-> cell, cell_ |-> cell, car |-> Unbound,
               pc |-> "while", ret |-> Unbound]
    /\ ctx = NoCtx
    /\ last = NoCall
    /\ OrIdle
    /\ HooksIdle
    /\ FacetsIdle /\ PermIdle /\ InstallIdle /\ FactsGoalIdle
    /\ ReifIdle /\ TableIdle /\ AndIdle /\ SolverIdle /\ SetIdle
    /\ WalkIdle /\ NotinObjIdle /\ AgainIdle

celStep ==
    UNCHANGED <<subVars, orVars, hookVars, facetVars, permVars,
                installVars, factVars, reifVars, tableVars, andVars,
                solverVars, setVars, whooks, nheap, nlast, aagain>>

\* while cell_ != empty
CelWhile ==
    /\ cel.pc = "while"
    /\ cel' = [cel EXCEPT !.pc = IF cel.cell_ # <<>> THEN "body"
                                 ELSE "return"]
    /\ celStep

\* car, cdr = cell; cell_ = cdr
CelBody ==
    /\ cel.pc = "body"
    /\ cel' = [cel EXCEPT !.car = <<Head(cel.cell)>>,
                          !.cell_ = Tail(cel.cell),
                          !.pc = "while"]
    /\ celStep

\* return car
CelReturn ==
    /\ cel.pc = "return"
    /\ cel' = [cel EXCEPT !.ret = cel.car, !.pc = "done"]
    /\ celStep

NextCel == CelWhile \/ CelBody \/ CelReturn

\* the interpreter runs the next statement of the call
SpecCel == InitCel /\ [][NextCel]_vars /\ WF_vars(NextCel)

\* C40: cons_last terminates on every non-empty cons list and returns its
\* last item.
C40_ConsLast ==
    <>(cel.pc = "done" /\ cel.ret = <<cel.cell[Len(cel.cell)]>>)

\* cons_last on a list of one item terminates and returns the item
OneItemTerminates ==
    Len(cel.cell) = 1 ~> (cel.pc = "done" /\ cel.ret = <<cel.cell[1]>>)

-----------------------------------------------------------------------------
(* C39, under SpecFactsGoal.                                               *)

\* the bindings context c holds after the free arguments are unified with
\* row r: each variable an argument walks to is bound to the row's value at
\* that column, every other binding is as in c
rowBound(c, args, r) ==
    [v \in Vars |->
        IF \E i \in 1..Len(args) : isVar(args[i]) /\ walk(c, args[i]) = v
        THEN FactRows[r][CHOOSE i \in 1..Len(args) :
                             isVar(args[i]) /\ walk(c, args[i]) = v]
        ELSE c.subs[v]]

\* C39: each context yielded by a FactsGoal extends the input context with
\* the bindings of one row only: its bindings are those of the input context
\* and, for a single row, the values of that row for the argument variables;
\* nothing bound while another row was tried is in it.
C39_OneRowOnly ==
    fcall.called =>
        \A k \in 1..Len(fcall.res.yields) :
            \E r \in 1..Len(FactRows) :
                /\ matches(fcall.args, r)
                /\ fcall.res.yields[k].subs
                       = rowBound(fcall.pre, fcall.args, r)

\* R(1, 2, x) on a context that binds y: the first row bound x to 3, and the
\* context yielded for the second row binds x to 4
C39_Witness ==
    /\ fcall.called
    /\ fcall.args = <<"1", "2", "x">>
    /\ fcall.pre.subs["y"] # NoKey
    /\ Len(fcall.res.yields) = 2
    /\ fcall.res.yields[1].subs["x"] = "3"
    /\ fcall.res.yields[2].subs["x"] = "4"

====
